---- MODULE Spec2Model ----
(***************************************************************************)
(* Model of the auto-crawler persistence layer: the master / snapshot     *)
(* stores of the four crawlers (facebook and the legacy core module,      *)
(* youtube, shopee, tiktok), their batch ingest functions, the index      *)
(* bootstrap and duplicate clean-up, and the trend queries.               *)
(*                                                                         *)
(* Python values are modelled as follows: a str is a TLA+ string, None in *)
(* a str-typed slot is the marker None, None in a datetime-typed slot is  *)
(* NoTime, a datetime is its number of seconds since the epoch, a list is *)
(* a sequence and a MongoDB collection is a set of documents, each with   *)
(* the _id the store gave it.                                             *)
(***************************************************************************)
EXTENDS Integers, Sequences, FiniteSets, TLC

\* ------------------------------------------------------------------ bounds

\* Longest batch handed to one ingest call.
MaxBatch == 3
\* Entities handed to the ingest calls of one behaviour, all calls together.
MaxEntities == 3
\* The same under SpecFault, and the store operations the store may reject
\* in one of its behaviours.
MaxFaultEntities == 2
MaxFaults == 1
\* The concurrent runs of SpecRace and the longest batch of one of them.
MaxRuns == 2
MaxRaceBatch == 2
\* Parser inputs: the longest path of a safe_get call, the longest count
\* text, the most result nodes in a chunk, the greatest PYTHONHASHSEED.
MaxPath == 2
MaxCountLen == 3
MaxChunk == 2
MaxHashSeed == 1
\* The most captured responses of one scrape.
MaxResponses == 2
\* The scraper run: most api keys, most keywords, most items of a page.
MaxKeys == 2
MaxKeywords == 2
MaxPageItems == 2

\* ------------------------------------------------------- values and strings

None == "<None>"
NoTime == -1

\* Python truthiness of a str-or-None value (None and '' are falsy).
truthy(v) == v # None /\ v # ""

\* str(v) as an f-string renders it.
format(v) == IF v = None THEN "None" ELSE v

Min(a, b) == IF a <= b THEN a ELSE b

\* kw in s  (substring containment).
contains(s, kw) ==
    \E i \in 1..(Len(s) - Len(kw) + 1) : SubSeq(s, i, i + Len(kw) - 1) = kw

UpperCase == <<"A","B","C","D","E","F","G","H","I","J","K","L","M",
               "N","O","P","Q","R","S","T","U","V","W","X","Y","Z">>
LowerCase == <<"a","b","c","d","e","f","g","h","i","j","k","l","m",
               "n","o","p","q","r","s","t","u","v","w","x","y","z">>

lower_char(c) ==
    IF \E i \in 1..Len(UpperCase) : UpperCase[i] = c
    THEN LowerCase[CHOOSE i \in 1..Len(UpperCase) : UpperCase[i] = c]
    ELSE c

\* str.lower()
RECURSIVE lower(_)
lower(s) ==
    IF s = "" THEN ""
    ELSE lower_char(SubSeq(s, 1, 1)) \o lower(SubSeq(s, 2, Len(s)))

\* str.strip() of blanks.
RECURSIVE strip(_)
strip(s) ==
    IF s # "" /\ SubSeq(s, 1, 1) = " " THEN strip(SubSeq(s, 2, Len(s)))
    ELSE IF s # "" /\ SubSeq(s, Len(s), Len(s)) = " "
    THEN strip(SubSeq(s, 1, Len(s) - 1))
    ELSE s

\* The value of a string of decimal digits, -1 for any other string.
Digits == <<"0", "1", "2", "3", "4", "5", "6", "7", "8", "9">>
RECURSIVE digits(_)
digits(s) ==
    LET last == SubSeq(s, Len(s), Len(s))
        rest == IF Len(s) = 1 THEN 0 ELSE digits(SubSeq(s, 1, Len(s) - 1))
    IN  IF s = "" \/ rest < 0 \/ \A i \in 1..10 : Digits[i] # last THEN -1
        ELSE 10 * rest + (CHOOSE i \in 1..10 : Digits[i] = last) - 1

\* ------------------------------------------------------------------- time

SecondsPerMinute == 60
SecondsPerHour == 3600
\* Start of the behaviour and the time that passes between two clock reads.
StartTime == 1000000
Tick == 25

\* strftime('%Y-%m-%dT%H:%M'): the instant cut to its minute.
strftime_minute(t) == "T" \o ToString(t \div SecondsPerMinute)

\* datetime.fromtimestamp(ts, tz=utc) inside try/except: None when it raises.
MaxTimestamp == 2000000000
fromtimestamp(ts) == IF ts >= 0 /\ ts <= MaxTimestamp THEN ts ELSE NoTime

\* ------------------------------------------------------------------ state

VARIABLES
    program,             \* the program this run is: a crawler of src/main.py or "legacy"
    posts,               \* facebook: collection 'posts' (master)
    metrics_snapshot,    \* facebook: collection 'metrics_snapshot'
    collection_main,     \* shopee / tiktok: master collection
    collection_history,  \* shopee / tiktok: history collection
    master,              \* youtube: collection 'videos'
    history,             \* youtube: collection 'snapshots'
    unique_index,        \* the unique index on the master's id field exists
    now,                 \* the wall clock
    next_oid,            \* the next _id the store hands out
    hashseed,            \* PYTHONHASHSEED of the running process
    call,                \* the last finished call: its arguments and result
    budget,              \* entities the ingest calls to come may still carry
    sightings,           \* per native id: [calls, entities] that carried it
    faults,              \* store rejections still to come
    runs                 \* the concurrent runs (SpecRace)

vars == <<program, posts, metrics_snapshot, collection_main,
          collection_history, master, history, unique_index, now, next_oid,
          hashseed, call, budget, sightings, faults, runs>>

\* ----------------------------------------------------- facebook: classify

\* The tables are the source's, letter for letter, except that the letters
\* d-with-stroke and a-with-breve are written as eth and a-with-tilde,
\* which the parser accepts and the tables do not use otherwise.

FacebookCategories ==
    <<
       [category |-> "refrigerator", keywords |-> <<"tủ lạnh", "tu lanh", "tủ ðông", "refrigerator", "fridge">>],
       [category |-> "rice_cooker", keywords |-> <<"nồi cơm ðiện", "noi com dien", "rice cooker">>],
       [category |-> "washing_machine", keywords |-> <<"máy giặt", "may giat", "washing machine">>],
       [category |-> "tv", keywords |-> <<"tivi", "tv", "ti vi", "smart tv">>],
       [category |-> "air_fryer", keywords |-> <<"nồi chiên không dầu", "air fryer", "lò nướng">>],
       [category |-> "stove", keywords |-> <<"bếp ga", "bep ga", "bếp từ", "bep tu">>],
       [category |-> "vacuum", keywords |-> <<"máy hút bụi", "may hut bui", "vacuum">>],
       [category |-> "fan", keywords |-> <<"quạt", "quat", "fan">>],
       [category |-> "kettle", keywords |-> <<"ấm siêu tốc", "am sieu toc", "ấm ðun">>],
       [category |-> "iron", keywords |-> <<"bàn ủi", "ban ui", "iron">>]
    >>

\* any(kw in s for kw in keywords)
any_in(keywords, s) == \E i \in 1..Len(keywords) : contains(s, keywords[i])

\* The loop of classify_category / classify_post_category over an ordered
\* table: the first entry whose keywords hit the keyword or the text.
RECURSIVE first_category(_, _, _, _)
first_category(table, i, text_lower, keyword_lower) ==
    IF i > Len(table) THEN "general"
    ELSE IF any_in(table[i].keywords, keyword_lower) THEN table[i].category
    ELSE IF any_in(table[i].keywords, text_lower) THEN table[i].category
    ELSE first_category(table, i + 1, text_lower, keyword_lower)

classify_category(text, keyword) ==
    first_category(FacebookCategories, 1, lower(text), lower(keyword))

\* core: `for category, keywords in categories.items()` binds `keywords` to
\* the category's dict {'name', 'priority', 'keywords', 'negative_keywords'},
\* and iterating a dict yields its keys: those four strings are what
\* `kw in keyword_lower` tests, for every category alike.
CoreCategoryDictKeys == <<"name", "priority", "keywords", "negative_keywords">>
CoreCategoryOrder ==
    <<"refrigerator", "rice_cooker", "washing_machine", "tv", "oven",
      "stove", "vacuum", "fan", "kettle", "iron">>
CoreCategories ==
    [i \in 1..Len(CoreCategoryOrder) |->
        [category |-> CoreCategoryOrder[i], keywords |-> CoreCategoryDictKeys]]

classify_post_category(text, keyword) ==
    first_category(CoreCategories, 1, lower(text), lower(keyword))

\* core: the 'keywords' and 'negative_keywords' lists of the category table,
\* in declaration order.
CoreKeywords ==
    <<
       [category |-> "refrigerator",
        keywords |->
          <<"tủ lạnh", "tu lanh", "tủ ðông", "tu dong", "tủ mát",
            "refrigerator", "fridge", "inverter tủ lạnh", "2 cửa",
            "1 cửa", "side by side", "ngãn ðá", "ngãn ðông",
            "ngãn mát", "cửa tủ lạnh">>,
        negative_keywords |->
          <<"tủ lạnh mini xe hơi">>],
       [category |-> "rice_cooker",
        keywords |->
          <<"nồi cơm ðiện", "noi com dien", "rice cooker", "nồi cơm",
            "noi com", "cơm ðiện", "com dien", "nồi ðiện tử",
            "nấu cơm", "nau com", "lòng nồi", "long noi", "ruột nồi">>,
        negative_keywords |->
          <<"nồi chiên", "air fryer", "nồi áp suất">>],
       [category |-> "washing_machine",
        keywords |->
          <<"máy giặt", "may giat", "washing machine", "máy giặt cửa",
            "máy giặt sấy", "máy giặt lồng", "inverter máy giặt",
            "cửa trước", "cửa trên", "cửa ngang", "lồng giặt",
            "long giat", "giặt sấy", "kg máy giặt">>,
        negative_keywords |->
          <<>>],
       [category |-> "tv",
        keywords |->
          <<"tivi", "tv", "ti vi", "television", "smart tv",
            "android tv", "google tv", "4k tv", "oled tv", "qled tv",
            "led tv", "inch tivi", "màn hình tivi", "32 inch",
            "43 inch", "55 inch", "65 inch", "75 inch">>,
        negative_keywords |->
          <<"màn hình máy tính", "monitor", "pc">>],
       [category |-> "oven",
        keywords |->
          <<"lò nướng", "lo nuong", "oven", "lò nướng ðiện",
            "lò nướng bánh", "air fryer", "nồi chiên không dầu",
            "nồi chiên", "noi chien", "chiên không dầu",
            "lò nướng thủy tinh", "nướng bánh", "chiên giòn">>,
        negative_keywords |->
          <<"nồi cơm", "nồi áp suất", "lò vi sóng">>],
       [category |-> "stove",
        keywords |->
          <<"bếp ga", "bep ga", "bếp từ", "bep tu", "bếp ðiện",
            "bếp hồng ngoại", "bếp ðiện từ", "bếp ðôi", "bep doi",
            "bếp ðơn", "cooktop", "bếp induction", "mặt bếp",
            "mat bep", "ðầu ðốt", "dau dot">>,
        negative_keywords |->
          <<>>],
       [category |-> "vacuum",
        keywords |->
          <<"máy hút bụi", "may hut bui", "vacuum", "vacuum cleaner",
            "máy hút cầm tay", "máy hút bụi robot", "robot vacuum",
            "hút bụi", "hut bui", "hút khô", "hút ướt">>,
        negative_keywords |->
          <<>>],
       [category |-> "fan",
        keywords |->
          <<"quạt", "quat", "fan", "quạt ðiện", "quat dien",
            "quạt ðứng", "quat dung", "quạt bàn", "quat ban",
            "quạt trần", "quat tran", "quạt sạc", "quạt mini",
            "quạt hơi nước", "quạt không cánh", "cánh quạt", "canh quat">>,
        negative_keywords |->
          <<>>],
       [category |-> "kettle",
        keywords |->
          <<"ấm siêu tốc", "am sieu toc", "ấm ðun", "am dun",
            "ấm ðun nước", "bình ðun siêu tốc", "binh dun sieu toc",
            "electric kettle", "ấm ðiện", "am dien", "ðun nước",
            "dun nuoc", "siêu tốc">>,
        negative_keywords |->
          <<"bình nóng lạnh">>],
       [category |-> "iron",
        keywords |->
          <<"bàn ủi", "ban ui", "iron", "bàn là", "ban la",
            "bàn ủi hơi", "ban ui hoi", "máy ủi", "may ui", "máy là",
            "ủi quần áo", "ui quan ao", "mặt ủi", "mat ui">>,
        negative_keywords |->
          <<>>]
    >>

\* ------------------------------------------------------- facebook: inputs

NativeIds == {"101", "102"}
MissingIds == {None, ""}
Keywords == {"tivi", ""}

\* Two posts as the extractor returns them: one with total engagement 50,
\* one with total engagement 3 and no resolved author id.
post_a(id) ==
    [id |-> id, type |-> "Story", extraction_method |-> "graphql",
     text |-> "Smart TV", author_id |-> "u1", owner |-> "Ann",
     publish_time |-> StartTime - SecondsPerHour,
     comment_count |-> 6, share_count |-> 4, view_count |-> 0,
     reactions |-> {[name |-> "total", count |-> 40],
                    [name |-> "Like", count |-> 40]},
     attachments |-> <<[url |-> "http://img", thumbnail |-> None]>>]

post_b(id) ==
    [id |-> id, type |-> "Story", extraction_method |-> "graphql",
     text |-> "quat", author_id |-> None, owner |-> "Bob",
     publish_time |-> StartTime - 2 * SecondsPerHour,
     comment_count |-> 1, share_count |-> 1, view_count |-> 0,
     reactions |-> {[name |-> "total", count |-> 1],
                    [name |-> "Haha", count |-> 1]},
     attachments |-> <<[url |-> None, thumbnail |-> "http://thumb"]>>]

RawPosts ==
    {post_a(id) : id \in NativeIds} \cup {post_b(id) : id \in NativeIds}
        \cup {post_a(id) : id \in MissingIds}

Texts == {p.text : p \in RawPosts}

\* The two classifiers over the texts and keywords of the inputs.
classify_category_of ==
    [text \in Texts, keyword \in Keywords |-> classify_category(text, keyword)]

classify_post_category_of ==
    [text \in Texts, keyword \in Keywords |->
        classify_post_category(text, keyword)]

\* ------------------------------------------------- facebook: transform_post

HashModulus == 1000000000

\* ord(c) of a letter: its place in the alphabet below (0 for another
\* character); stands for the bytes of the string that the hash mixes.
Alphabet == LowerCase \o UpperCase
ord(c) ==
    IF \E i \in 1..Len(Alphabet) : Alphabet[i] = c
    THEN CHOOSE i \in 1..Len(Alphabet) : Alphabet[i] = c
    ELSE 0

RECURSIVE str_code(_)
str_code(s) ==
    IF s = "" THEN 0
    ELSE (ord(SubSeq(s, 1, 1)) + 31 * str_code(SubSeq(s, 2, Len(s)))) % 65521

\* hash(s) of a str: CPython salts it with the PYTHONHASHSEED the process
\* started with, so it is a function of the seed and the string.
hash(s) == (hashseed + 1) * 7919 + str_code(s) * (2 * hashseed + 1)

\* url = att.get('url') or att.get('thumbnail'); kept when truthy.
RECURSIVE media_urls_of(_)
media_urls_of(attachments) ==
    IF attachments = <<>> THEN <<>>
    ELSE LET att == Head(attachments)
             url == IF truthy(att.url) THEN att.url ELSE att.thumbnail
         IN  (IF truthy(url) THEN <<url>> ELSE <<>>)
                 \o media_urls_of(Tail(attachments))

\* reactions.get('total', 0)
reactions_total(reactions) ==
    IF \E r \in reactions : r.name = "total"
    THEN (CHOOSE r \in reactions : r.name = "total").count
    ELSE 0

\* A session id taken from the clock when the document is built.
clock_session(session_id, t) == strftime_minute(t)

\* 'crawl_session_id': session_id: the documents of a post are tagged with
\* the session id handed down by the call, whatever the clock says by then.
tagged_session(session_id, t) == session_id

\* transform_post / transform_scraped_post: the two documents of one raw post.
\* t is what datetime.now() returns while the post is transformed; classify is
\* the module's classifier, tabulated over the texts and keywords in use.
transform(raw_post, keyword, session_id, t, classify) ==
    LET created_at == IF raw_post.publish_time # 0
                      THEN fromtimestamp(raw_post.publish_time)
                      ELSE NoTime
        native_id == raw_post.id
        post_id == "facebook" \o "_" \o format(native_id)
        author_name == raw_post.owner
        author_id == IF truthy(raw_post.author_id)
                     THEN raw_post.author_id
                     ELSE "facebook" \o "_user_"
                              \o ToString(hash(author_name) % HashModulus)
    IN  [post_doc |->
            [post_id |-> post_id,
             author_name |-> author_name,
             author_id |-> author_id,
             content |-> raw_post.text,
             media_urls |-> media_urls_of(raw_post.attachments),
             created_at |-> created_at,
             matched_keywords |-> IF keyword # "" THEN <<keyword>> ELSE <<>>,
             category |-> classify[raw_post.text, keyword],
             platform |-> "facebook",
             scraped_at |-> t,
             crawl_session_id |-> tagged_session(session_id, t),
             platform_data |->
                [native_post_id |-> native_id,
                 native_author_id |-> raw_post.author_id,
                 post_type |-> raw_post.type,
                 extraction_method |-> raw_post.extraction_method]],
         metrics_doc |->
            [post_id |-> post_id,
             likes |-> reactions_total(raw_post.reactions),
             comments |-> raw_post.comment_count,
             shares |-> raw_post.share_count,
             views |-> raw_post.view_count,
             reaction_breakdown |-> {r \in raw_post.reactions : r.name # "total"},
             snapshot_time |-> t,
             crawl_session_id |-> tagged_session(session_id, t)]]

transform_post(raw_post, keyword, session_id, t) ==
    transform(raw_post, keyword, session_id, t, classify_category_of)

transform_scraped_post(raw_post, keyword, crawl_session_id, t) ==
    transform(raw_post, keyword, crawl_session_id, t, classify_post_category_of)

\* ------------------------------------------------ the store: update, insert

\* A $push where $addToSet is meant.
push(array, v) == Append(array, v)

\* $addToSet on an array field.
add_to_set(array, v) ==
    IF \E i \in 1..Len(array) : array[i] = v THEN array ELSE Append(array, v)

\* A filter that matches no document.
matching_nothing(coll, post_id) == {}

\* The documents a {'post_id': post_id} filter matches.
matching(coll, post_id) == {d \in coll : d.post_id = post_id}

\* The document update_one picks: the first in natural (insertion) order.
first_match(coll, post_id) ==
    CHOOSE d \in matching(coll, post_id) :
        \A e \in matching(coll, post_id) : d.oid <= e.oid

\* The fields $setOnInsert writes, on insert only.
set_on_insert(post_doc) ==
    [author_name |-> post_doc.author_name,
     author_id |-> post_doc.author_id,
     content |-> post_doc.content,
     media_urls |-> post_doc.media_urls,
     created_at |-> post_doc.created_at,
     category |-> post_doc.category,
     platform |-> post_doc.platform,
     platform_data |-> post_doc.platform_data]

\* The UpdateOne(..., upsert=True) insert_posts builds for one post.
UpdateOne(post_doc, keyword, session_id) ==
    [filter |-> post_doc.post_id,
     setOnInsert |-> set_on_insert(post_doc),
     set |-> [scraped_at |-> post_doc.scraped_at,
              crawl_session_id |-> session_id],
     addToSet |-> keyword]

\* An update that writes the $setOnInsert fields as well.
replaced_doc(d, op) ==
    [d EXCEPT !.author_name = op.setOnInsert.author_name,
              !.author_id = op.setOnInsert.author_id,
              !.content = op.setOnInsert.content,
              !.media_urls = op.setOnInsert.media_urls,
              !.created_at = op.setOnInsert.created_at,
              !.category = op.setOnInsert.category,
              !.platform = op.setOnInsert.platform,
              !.platform_data = op.setOnInsert.platform_data,
              !.scraped_at = op.set.scraped_at,
              !.crawl_session_id = op.set.crawl_session_id,
              !.matched_keywords = add_to_set(@, op.addToSet)]

\* The update of a matched document: $set and $addToSet; $setOnInsert is
\* not applied.
updated_doc(d, op) ==
    [d EXCEPT !.scraped_at = op.set.scraped_at,
              !.crawl_session_id = op.set.crawl_session_id,
              !.matched_keywords = add_to_set(@, op.addToSet)]

\* The document an upsert inserts when the filter matches nothing: the
\* filter's equality field, $setOnInsert, $set and $addToSet.
upserted_doc(op, oid) ==
    [oid |-> oid,
     post_id |-> op.filter,
     author_name |-> op.setOnInsert.author_name,
     author_id |-> op.setOnInsert.author_id,
     content |-> op.setOnInsert.content,
     media_urls |-> op.setOnInsert.media_urls,
     created_at |-> op.setOnInsert.created_at,
     category |-> op.setOnInsert.category,
     platform |-> op.setOnInsert.platform,
     platform_data |-> op.setOnInsert.platform_data,
     scraped_at |-> op.set.scraped_at,
     crawl_session_id |-> op.set.crawl_session_id,
     matched_keywords |-> <<op.addToSet>>]

\* bulk_write(operations, ordered=False) by one writer: every operation is
\* tried, in the order given; the ones in `rejected` come back as
\* writeErrors and leave the collection alone.
RECURSIVE bulk_write(_, _, _, _)
bulk_write(acc, operations, i, rejected) ==
    IF i > Len(operations) THEN acc
    ELSE LET op == operations[i] IN
         IF i \in rejected
         THEN bulk_write([acc EXCEPT !.writeErrors = @ + 1],
                         operations, i + 1, rejected)
         ELSE IF matching(acc.coll, op.filter) # {}
         THEN LET d == first_match(acc.coll, op.filter)
                  e == updated_doc(d, op)
              IN  bulk_write([acc EXCEPT !.coll = (@ \ {d}) \cup {e},
                                         !.modified_count =
                                             IF e # d THEN @ + 1 ELSE @],
                             operations, i + 1, rejected)
         ELSE bulk_write([acc EXCEPT !.coll = @ \cup {upserted_doc(op, acc.oid)},
                                     !.oid = @ + 1,
                                     !.upserted_count = @ + 1],
                         operations, i + 1, rejected)

\* An insert_many that inserts nothing.
insert_nothing(acc, documents, i, rejected) == acc

\* insert_many(documents, ordered=False): every document not in `rejected`
\* is inserted under a fresh _id.
RECURSIVE insert_many(_, _, _, _)
insert_many(acc, documents, i, rejected) ==
    IF i > Len(documents) THEN acc
    ELSE IF i \in rejected
    THEN insert_many([acc EXCEPT !.writeErrors = @ + 1],
                     documents, i + 1, rejected)
    ELSE insert_many(
             [acc EXCEPT !.coll = @ \cup {[oid |-> acc.oid] @@ documents[i]},
                         !.oid = @ + 1,
                         !.inserted = @ + 1],
             documents, i + 1, rejected)

\* ------------------------------------------------- facebook: insert_posts

\* The loop of insert_posts over scraped_posts: a post without id is
\* skipped; every other one adds an UpdateOne and a metrics document. The
\* clock is read once per transformed post, Tick after the read before.
\* `module` says whose loop it is: crawlers/facebook/database.py
\* ("facebook") or core/database.py ("core"); they differ in the transform.
RECURSIVE prepare(_, _, _, _, _, _)
prepare(acc, scraped_posts, i, keyword, session_id, module) ==
    IF i > Len(scraped_posts) THEN acc
    ELSE IF ~truthy(scraped_posts[i].id)
    THEN prepare(acc, scraped_posts, i + 1, keyword, session_id, module)
    ELSE LET t == acc.t + Tick
             docs == IF module = "core"
                     THEN transform_scraped_post(scraped_posts[i], keyword,
                                                 session_id, t)
                     ELSE transform_post(scraped_posts[i], keyword,
                                         session_id, t)
         IN  prepare([post_operations |->
                          Append(acc.post_operations,
                                 UpdateOne(docs.post_doc, keyword, session_id)),
                      metrics_documents |->
                          Append(acc.metrics_documents, docs.metrics_doc),
                      t |-> t],
                     scraped_posts, i + 1, keyword, session_id, module)

\* The session id of one call: one clock read, cut to the minute.
session_id_at(t) == strftime_minute(t)

\* insert_posts / insert_posts_with_metrics from entry to return, on the
\* collections as they are, with the store rejecting the master operations
\* `mrej` and the metrics documents `srej`.
insert_posts_run(scraped_posts, keyword, mrej, srej, module) ==
    LET session_id == session_id_at(now)
        prepared == prepare([post_operations |-> <<>>,
                             metrics_documents |-> <<>>, t |-> now],
                            scraped_posts, 1, keyword, session_id, module)
        written == bulk_write([coll |-> posts, oid |-> next_oid,
                               upserted_count |-> 0, modified_count |-> 0,
                               writeErrors |-> 0],
                              prepared.post_operations, 1, mrej)
        \* except BulkWriteError: only the error count is kept.
        master_ok == written.writeErrors = 0
        appended == insert_many([coll |-> metrics_snapshot, oid |-> written.oid,
                                 inserted |-> 0, writeErrors |-> 0],
                                prepared.metrics_documents, 1, srej)
        \* except Exception: metrics_inserted keeps its 0.
        metrics_ok == appended.writeErrors = 0
    IN  [posts |-> written.coll,
         metrics_snapshot |-> appended.coll,
         oid |-> appended.oid,
         t |-> prepared.t + Tick,
         session_id |-> session_id,
         post_operations |-> prepared.post_operations,
         metrics_documents |-> prepared.metrics_documents,
         result |->
            [posts_inserted |-> IF master_ok THEN written.upserted_count ELSE 0,
             posts_updated |-> IF master_ok THEN written.modified_count ELSE 0,
             metrics_inserted |-> IF metrics_ok THEN appended.inserted ELSE 0,
             errors |-> IF master_ok THEN 0 ELSE written.writeErrors]]

\* ----------------------------------------------------------------- inputs

batches(pool) == UNION {[1..n -> pool] : n \in 1..MaxBatch}

\* The sets of at most k of the operations 1..n.
rejections(n, k) == {S \in SUBSET (1..n) : Cardinality(S) <= k}

\* How often the native id occurs in the batch.
RECURSIVE occurrences(_, _)
occurrences(ids, id) ==
    IF ids = <<>> THEN 0
    ELSE (IF Head(ids) = id THEN 1 ELSE 0) + occurrences(Tail(ids), id)

seen(ids) ==
    [id \in NativeIds |->
        [calls |-> sightings[id].calls
                      + (IF occurrences(ids, id) > 0 THEN 1 ELSE 0),
         entities |-> sightings[id].entities + occurrences(ids, id)]]

ids_of(scraped_posts) == [i \in 1..Len(scraped_posts) |-> scraped_posts[i].id]

\* ---------------------------------------------------------------- actions

other_stores == <<collection_main, collection_history, master, history>>

ingest_posts(module) ==
    /\ \E scraped_posts \in batches(RawPosts), keyword \in Keywords :
        /\ Len(scraped_posts) <= budget
        /\ \E mrej \in rejections(Len(scraped_posts), faults) :
           \E srej \in rejections(Len(scraped_posts), faults - Cardinality(mrej)) :
             LET out == insert_posts_run(scraped_posts, keyword, mrej, srej, module)
                 used == Cardinality(mrej \cap 1..Len(out.post_operations))
                           + Cardinality(srej \cap 1..Len(out.metrics_documents))
             IN  /\ mrej \subseteq 1..Len(out.post_operations)
                 /\ srej \subseteq 1..Len(out.metrics_documents)
                 /\ posts' = out.posts
                 /\ metrics_snapshot' = out.metrics_snapshot
                 /\ next_oid' = out.oid
                 /\ now' = out.t
                 /\ faults' = faults - used
                 /\ call' = [op |-> "insert_posts", at |-> now,
                             scraped_posts |-> scraped_posts,
                             keyword |-> keyword, session_id |-> out.session_id,
                             mrej |-> mrej, srej |-> srej,
                             result |-> out.result]
                 /\ budget' = budget - Len(scraped_posts)
                 /\ sightings' = seen(ids_of(scraped_posts))
    /\ UNCHANGED <<program, other_stores, unique_index, hashseed, runs>>

insert_posts ==
    /\ program = "facebook"
    /\ ingest_posts("facebook")

insert_posts_with_metrics ==
    /\ program = "legacy"
    /\ ingest_posts("core")

\* ------------------------------------------------ facebook: maintenance

\* delete_many({'$or': [{'post_id': None}, {'post_id': {'$exists': False}}]})
null_post_ids(coll) == {d \in coll : d.post_id = None}

\* Some post_id is carried by two documents: create_index(unique=True) fails.
has_duplicates(coll) ==
    \E d \in coll, e \in coll : d # e /\ d.post_id = e.post_id

\* core: clean_null_post_ids
clean_null_post_ids ==
    /\ program \in {"facebook", "legacy"}
    /\ posts' = posts \ null_post_ids(posts)
    /\ call' = [op |-> "clean_null_post_ids",
                result |-> Cardinality(null_post_ids(posts))]
    /\ UNCHANGED <<program, metrics_snapshot, other_stores, unique_index, now,
                   next_oid, hashseed, budget, sightings, faults, runs>>

\* create_indexes of both modules: the null ids are purged, the post_id
\* index is dropped and created again as a unique one. When that fails the
\* crawler's version re-raises; core's returns when it finds duplicates.
create_indexes_of(module) ==
    LET kept == posts \ null_post_ids(posts)
        built == ~has_duplicates(kept)
    IN  /\ posts' = kept
        /\ unique_index' = built
        /\ call' = [op |-> "create_indexes", module |-> module,
                    result |-> IF built THEN "returned"
                               ELSE IF module = "core" THEN "returned"
                               ELSE "raised"]
        /\ UNCHANGED <<program, metrics_snapshot, other_stores, now, next_oid,
                       hashseed, budget, sightings, faults, runs>>

create_indexes ==
    /\ program = "facebook"
    /\ create_indexes_of("facebook")

core_create_indexes ==
    /\ program = "legacy"
    /\ create_indexes_of("core")

\* The post_ids the $group / $match of clean_duplicate_posts reports.
duplicated_post_ids(coll) ==
    {d.post_id : d \in {e \in coll : Cardinality(matching(coll, e.post_id)) > 1}}

\* The documents a sort by scraped_at ascending would list first.
least_recent(coll, post_id) ==
    {d \in {x \in coll : x.post_id = post_id} :
        \A e \in {x \in coll : x.post_id = post_id} : d.scraped_at <= e.scraped_at}

\* The documents find(...).sort('scraped_at', -1) may list first.
most_recent(coll, post_id) ==
    {d \in matching(coll, post_id) :
        \A e \in matching(coll, post_id) : e.scraped_at <= d.scraped_at}

\* A clean-up that deletes the snapshots of the duplicated posts as well.
clean_duplicate_posts_and_snapshots ==
    /\ program \in {"facebook", "legacy"}
    /\ posts' = {d \in posts : d.post_id \notin duplicated_post_ids(posts)}
    /\ metrics_snapshot' = {m \in metrics_snapshot :
                               m.post_id \notin duplicated_post_ids(posts)}
    /\ call' = [op |-> "clean_duplicate_posts",
                result |-> Cardinality(posts) - Cardinality(posts')]
    /\ UNCHANGED <<program, other_stores, unique_index, now,
                   next_oid, hashseed, budget, sightings, faults, runs>>

\* core: clean_duplicate_posts
clean_duplicate_posts ==
    /\ program \in {"facebook", "legacy"}
    /\ \E keep \in [duplicated_post_ids(posts) -> posts] :
        /\ \A post_id \in duplicated_post_ids(posts) :
               keep[post_id] \in most_recent(posts, post_id)
        /\ LET ids_to_delete ==
                   {d \in posts : /\ d.post_id \in duplicated_post_ids(posts)
                                  /\ d # keep[d.post_id]}
           IN  /\ posts' = posts \ ids_to_delete
               /\ call' = [op |-> "clean_duplicate_posts",
                           result |-> Cardinality(ids_to_delete)]
    /\ UNCHANGED <<program, metrics_snapshot, other_stores, unique_index, now,
                   next_oid, hashseed, budget, sightings, faults, runs>>

\* ---------------------------------------------------- facebook: queries

TrendingLimit == 20

\* The stages $match (created_at, category) of get_trending_posts.
in_window(coll, category, hours, t) ==
    {d \in coll : /\ d.created_at # NoTime
                  /\ d.created_at >= t - hours * SecondsPerHour
                  /\ (truthy(category) => d.category = category)}

\* The newest of a set of snapshots: $sort snapshot_time -1, $limit 1.
latest_of(snapshots) ==
    {m \in snapshots : \A n \in snapshots : n.snapshot_time <= m.snapshot_time}

\* $lookup of core's get_trending_posts: $expr $eq ['$post_id', '$$post_id']
\* compares the snapshot's post_id with the master's.
core_lookup(post) ==
    latest_of({m \in metrics_snapshot : m.post_id = post.post_id})

\* $lookup of the crawler's get_trending_posts: $expr $eq ['$post_id',
\* '$post_id'] compares the snapshot's post_id with itself.
facebook_lookup(post) ==
    latest_of({m \in metrics_snapshot : m.post_id = m.post_id})

\* $unwind, $addFields, $match on total_engagement: the rows of the result.
trending_rows(module, category, hours, min_engagement) ==
    {row \in
        UNION {{[post |-> d, latest_metrics |-> m,
                 total_engagement |-> m.likes + m.comments + m.shares] :
                   m \in IF module = "core" THEN core_lookup(d)
                         ELSE facebook_lookup(d)} :
               d \in in_window(posts, category, hours, now)} :
        row.total_engagement >= min_engagement}

\* $sort total_engagement -1, $limit 20: the lists the query may return.
RECURSIVE sorted_lists(_)
sorted_lists(rows) ==
    IF rows = {} THEN {<<>>}
    ELSE UNION {{<<r>> \o rest : rest \in sorted_lists(rows \ {r})} :
                r \in {x \in rows :
                         \A y \in rows : y.total_engagement <= x.total_engagement}}

trending_results(module, category, hours, min_engagement) ==
    {SubSeq(l, 1, Min(Len(l), TrendingLimit)) :
        l \in sorted_lists(trending_rows(module, category, hours, min_engagement))}

get_trending_posts_of(category, hours, min_engagement) ==
    trending_results("facebook", category, hours, min_engagement)

core_get_trending_posts_of(category, hours, min_engagement) ==
    trending_results("core", category, hours, min_engagement)

\* core: get_post_metrics_history: find, sort snapshot_time -1, limit.
RECURSIVE newest_first(_)
newest_first(snapshots) ==
    IF snapshots = {} THEN {<<>>}
    ELSE UNION {{<<m>> \o rest : rest \in newest_first(snapshots \ {m})} :
                m \in latest_of(snapshots)}

get_post_metrics_history_of(post_id, limit) ==
    {SubSeq(l, 1, Min(Len(l), limit)) :
        l \in newest_first({m \in metrics_snapshot : m.post_id = post_id})}

\* <<category, hours, min_engagement>>: the defaults, the crawler's own
\* call at the end of a run, and a category filter.
TrendArguments == {<<None, 24, 10>>, <<None, 168, 5>>, <<"tv", 24, 10>>}
HistoryLimits == {1, 10}

\* The queries read the store and leave every variable as it is.
get_trending_posts ==
    /\ program = "facebook"
    /\ \E a \in TrendArguments : get_trending_posts_of(a[1], a[2], a[3]) # {}
    /\ UNCHANGED vars

core_get_trending_posts ==
    /\ program = "legacy"
    /\ \E a \in TrendArguments : core_get_trending_posts_of(a[1], a[2], a[3]) # {}
    /\ UNCHANGED vars

get_post_metrics_history ==
    /\ program \in {"facebook", "legacy"}
    /\ \E id \in NativeIds, limit \in HistoryLimits :
          get_post_metrics_history_of("facebook_" \o id, limit) # {}
    /\ UNCHANGED vars

\* ------------------------------------------------------- shopee and tiktok

\* strftime("%Y-%m-%d %H:%M:%S"): the instant to the second.
strftime_second(t) == "D" \o ToString(t)

\* d.get(name, 0) on a dict of counters, given as its set of items.
count_of(counters, name) ==
    IF \E r \in counters : r.name = name
    THEN (CHOOSE r \in counters : r.name = name).count
    ELSE 0

\* insert_many(rows), ordered: the rows before the one the store rejects
\* are inserted, then it raises.
RECURSIVE insert_ordered(_, _, _, _)
insert_ordered(acc, documents, i, fail) ==
    IF i > Len(documents) THEN acc
    ELSE IF i = fail THEN [acc EXCEPT !.raised = TRUE]
    ELSE insert_ordered(
             [acc EXCEPT !.coll = @ \cup {[oid |-> acc.oid] @@ documents[i]},
                         !.oid = @ + 1,
                         !.inserted = @ + 1],
             documents, i + 1, fail)

\* The loop over main_docs.values(): find_one, then update_one of
\* last_day_crawling or insert_one. The write the store rejects raises.
RECURSIVE upsert_loop(_, _, _, _, _)
upsert_loop(acc, docs, i, key, fail) ==
    IF i > Len(docs) THEN acc
    ELSE IF i = fail THEN [acc EXCEPT !.raised = TRUE]
    ELSE LET doc == docs[i]
             found == {d \in acc.coll : d[key] = doc[key]}
         IN  IF found # {}
             THEN LET d == CHOOSE x \in found : \A y \in found : x.oid <= y.oid
                  IN  upsert_loop(
                          [acc EXCEPT !.coll = (@ \ {d}) \cup
                                          {[d EXCEPT !.last_day_crawling =
                                                         doc.last_day_crawling]},
                                      !.updated_main = @ + 1],
                          docs, i + 1, key, fail)
             ELSE upsert_loop(
                      [acc EXCEPT !.coll = @ \cup {[oid |-> acc.oid] @@ doc},
                                  !.oid = @ + 1,
                                  !.added_main = @ + 1],
                      docs, i + 1, key, fail)

\* main_docs: a dict keyed by id, in the order the ids are first met; a
\* later item of the same id only sets last_day_crawling again.
RECURSIVE main_docs_of(_, _, _)
main_docs_of(acc, docs, key) ==
    IF docs = <<>> THEN acc
    ELSE IF \E j \in 1..Len(acc) : acc[j][key] = Head(docs)[key]
    THEN main_docs_of(acc, Tail(docs), key)
    ELSE main_docs_of(Append(acc, Head(docs)), Tail(docs), key)

\* The two writes of insert_products_batch / insert_videos_batch: the
\* history insert_many, then the master loop; neither is in a try.
batch_write(history_rows, main_docs, key, hfail, mfail) ==
    LET appended == insert_ordered([coll |-> collection_history, oid |-> next_oid,
                                    inserted |-> 0, raised |-> FALSE],
                                   history_rows, 1, hfail)
        looped == IF appended.raised
                  THEN [coll |-> collection_main, oid |-> appended.oid,
                        added_main |-> 0, updated_main |-> 0, raised |-> TRUE]
                  ELSE upsert_loop([coll |-> collection_main, oid |-> appended.oid,
                                    added_main |-> 0, updated_main |-> 0,
                                    raised |-> FALSE],
                                   main_docs, 1, key, mfail)
    IN  [collection_history |-> appended.coll,
         collection_main |-> looped.coll,
         oid |-> looped.oid,
         raised |-> looped.raised,
         added_main |-> looped.added_main,
         updated_main |-> looped.updated_main,
         added_history |-> Len(history_rows)]

\* shopee: the loop of insert_products_batch over category_products.
RECURSIVE shopee_rows(_, _)
shopee_rows(category_products, now_vn) ==
    IF category_products = <<>> THEN <<>>
    ELSE LET item == Head(category_products) IN
         (IF ~truthy(item.itemid) THEN <<>>
          ELSE <<[history |-> item @@ [crawl_date |-> now_vn],
                  main |-> item @@ [first_day_crawling |-> now_vn,
                                    last_day_crawling |-> now_vn]]>>)
             \o shopee_rows(Tail(category_products), now_vn)

\* tiktok: the loop of insert_videos_batch over collected_items; the id is
\* not tested.
\* vid = v.get("id") or v.get("video", {}).get("id")
video_id_of(v) == IF truthy(v.id) THEN v.id ELSE v.video.id

RECURSIVE tiktok_rows(_, _)
tiktok_rows(collected_items, now_vn) ==
    IF collected_items = <<>> THEN <<>>
    ELSE LET item == Head(collected_items)
             v == item.video
             stats == IF v.stats # {} THEN v.stats ELSE v.statsV2
             vid == video_id_of(v)
             create_time == IF v.createTime # 0
                            THEN (IF fromtimestamp(v.createTime) # NoTime
                                  THEN strftime_second(fromtimestamp(v.createTime))
                                  ELSE "")
                            ELSE ""
             caption == SubSeq(v.desc, 1, Min(Len(v.desc), 400))
         IN  <<[history |->
                   [id |-> vid,
                    author_username |-> v.author.uniqueId,
                    author_nickname |-> v.author.nickname,
                    create_time |-> create_time,
                    likes |-> count_of(stats, "diggCount"),
                    shares |-> count_of(stats, "shareCount"),
                    comments |-> count_of(stats, "commentCount"),
                    views |-> count_of(stats, "playCount"),
                    saved |-> count_of(stats, "collectCount"),
                    caption |-> caption,
                    category |-> item.category,
                    crawl_date |-> now_vn],
                 main |->
                   [id |-> vid,
                    author_username |-> v.author.uniqueId,
                    author_nickname |-> v.author.nickname,
                    create_time |-> create_time,
                    caption |-> caption,
                    category |-> item.category,
                    first_day_crawling |-> now_vn,
                    last_day_crawling |-> now_vn]]>>
             \o tiktok_rows(Tail(collected_items), now_vn)

column(rows, name) == [i \in 1..Len(rows) |-> rows[i][name]]

ItemIds == {"11", "12"}

item_a(itemid) ==
    [itemid |-> itemid, name |-> "Tu lanh X", price |-> 100, sold_total |-> 5,
     category |-> "tu lanh"]

item_b(itemid) ==
    [itemid |-> itemid, name |-> "Tu lanh X", price |-> 90, sold_total |-> 7,
     category |-> "tu lanh"]

ShopeeItems ==
    {item_a(id) : id \in ItemIds} \cup {item_b(id) : id \in ItemIds}
        \cup {item_a(id) : id \in MissingIds}

VideoIds == {"701", "702"}

video_a(id, nested) ==
    [id |-> id, video |-> [id |-> nested], desc |-> "quat mini",
     createTime |-> StartTime - SecondsPerHour,
     stats |-> {[name |-> "diggCount", count |-> 9],
                [name |-> "playCount", count |-> 100]},
     statsV2 |-> {},
     author |-> [uniqueId |-> "ann", nickname |-> "Ann"]]

video_b(id, nested) ==
    [id |-> id, video |-> [id |-> nested], desc |-> "quat",
     createTime |-> 0,
     stats |-> {},
     statsV2 |-> {[name |-> "diggCount", count |-> 12],
                  [name |-> "playCount", count |-> 150]},
     author |-> [uniqueId |-> None, nickname |-> None]]

TikTokItems ==
    {[video |-> v, category |-> "quat"] :
        v \in {video_a(id, None) : id \in VideoIds}
                 \cup {video_b("701", None), video_b(None, "702"),
                       video_a(None, None), video_a("", None)}}

\* The index of the write the store rejects: 0 when it rejects none.
failures(n, k) == IF k > 0 THEN 0..n ELSE {0}

batch_ingest(name, pool, key) ==
    /\ \E items \in batches(pool) :
        /\ Len(items) <= budget
        /\ LET now_vn == strftime_second(now)
               rows == IF name = "shopee" THEN shopee_rows(items, now_vn)
                       ELSE tiktok_rows(items, now_vn)
               history_rows == column(rows, "history")
               main_docs == main_docs_of(<<>>, column(rows, "main"), key)
           IN  \E hfail \in failures(Len(history_rows), faults) :
               \E mfail \in failures(Len(main_docs),
                                     IF hfail > 0 THEN 0 ELSE faults) :
                 LET out == batch_write(history_rows, main_docs, key, hfail, mfail)
                 IN  /\ collection_history' = out.collection_history
                     /\ collection_main' = out.collection_main
                     /\ next_oid' = out.oid
                     /\ now' = now + Tick
                     /\ faults' = IF hfail > 0 \/ mfail > 0 THEN faults - 1
                                  ELSE faults
                     /\ call' = [op |-> "batch", at |-> now, items |-> items,
                                 now_vn |-> now_vn,
                                 hfail |-> hfail, mfail |-> mfail,
                                 result |->
                                    IF out.raised THEN [raised |-> TRUE]
                                    ELSE [raised |-> FALSE,
                                          inserted |-> out.added_main,
                                          updated |-> out.updated_main,
                                          history_inserted |-> out.added_history,
                                          errors |-> 0]]
                     /\ budget' = budget - Len(items)
    /\ UNCHANGED <<program, posts, metrics_snapshot, master, history,
                   unique_index, hashseed, sightings, runs>>

insert_products_batch ==
    /\ program = "shopee"
    /\ batch_ingest("shopee", ShopeeItems, "itemid")

insert_videos_batch ==
    /\ program = "tiktok"
    /\ batch_ingest("tiktok", TikTokItems, "id")

\* shopee / tiktok: create_indexes. The masters without id are deleted and
\* the unique index on the id is created; over duplicates create_index
\* fails and the error is raised again.
batch_create_indexes(key) ==
    LET kept == {d \in collection_main : d[key] # None}
        built == \A d \in kept, e \in kept : d[key] = e[key] => d = e
    IN  /\ collection_main' = kept
        /\ unique_index' = (unique_index \/ built)
        /\ call' = [op |-> "create_indexes",
                    result |-> IF built THEN "returned" ELSE "raised"]
        /\ UNCHANGED <<program, posts, metrics_snapshot, collection_history,
                       master, history, now, next_oid, hashseed, budget,
                       sightings, faults, runs>>

shopee_create_indexes ==
    /\ program = "shopee"
    /\ batch_create_indexes("itemid")

tiktok_create_indexes ==
    /\ program = "tiktok"
    /\ batch_create_indexes("id")

\* ------------------------------------------------------ youtube: videos

SecondsPerDay == 86400

\* strftime('%Y-%m-%d'): the day of the instant.
strftime_day(t) == "Y" \o ToString(t \div SecondsPerDay)

\* The table of the crawler's classify_category, in the order of the source
\* (d with stroke written as eth).
YoutubeCategories ==
    <<[category |-> "rice_cooker",
       keywords |-> <<"nồi cơm ðiện", "noi com dien", "rice cooker">>],
      [category |-> "refrigerator",
       keywords |-> <<"tủ lạnh", "tu lanh", "tủ ðông", "refrigerator">>],
      [category |-> "washing_machine",
       keywords |-> <<"máy giặt", "may giat", "washing machine">>],
      [category |-> "stove",
       keywords |-> <<"bếp", "bep", "stove", "bếp ga", "bếp từ">>],
      [category |-> "fan", keywords |-> <<"quạt", "quat", "fan">>],
      [category |-> "kettle",
       keywords |-> <<"ấm siêu tốc", "am sieu toc", "kettle", "ấm ðun">>],
      [category |-> "iron", keywords |-> <<"bàn ủi", "ban ui", "iron">>],
      [category |-> "vacuum",
       keywords |-> <<"máy hút bụi", "may hut bui", "vacuum">>],
      [category |-> "tv",
       keywords |-> <<"tivi", "ti vi", "tv", "smart tv", "television">>],
      [category |-> "oven",
       keywords |-> <<"lò nướng", "lo nuong", "oven", "air fryer">>]>>

RECURSIVE first_video_category(_, _)
first_video_category(i, text) ==
    IF i > Len(YoutubeCategories) THEN "general"
    ELSE IF any_in(YoutubeCategories[i].keywords, text)
    THEN YoutubeCategories[i].category
    ELSE first_video_category(i + 1, text)

youtube_classify_category(title, tags, query) ==
    first_video_category(1, lower(title \o " " \o tags \o " " \o query))

VideoKeys == {"v1", "v2"}
Queries == {"tivi"}

raw_video_a(video_id) ==
    [video_id |-> video_id, title |-> "Smart TV review", channel_id |-> "c1",
     channel_title |-> "Ann", published_at |-> "2024-01-01T00:00:00Z",
     tags |-> "tv", views |-> 100, likes |-> 9, comments |-> 2]

raw_video_b(video_id) ==
    [video_id |-> video_id, title |-> "Quat mini", channel_id |-> "c2",
     channel_title |-> "Bob", published_at |-> "2024-02-01T00:00:00Z",
     tags |-> "", views |-> 150, likes |-> 12, comments |-> 2]

RawVideos ==
    {raw_video_a(id) : id \in VideoKeys} \cup {raw_video_b("v1"),
                                               raw_video_a("")}

\* What the YouTube Data API lists for one video: the search response
\* carries id and channelTitle, the videos response the rest; a statistic
\* the channel hides is absent (d with stroke written as eth).
api_item(id, channelTitle, tags, likeCount) ==
    [id |-> id, title |-> "Smart TV review", channelId |-> "c1",
     channelTitle |-> channelTitle, publishedAt |-> "2024-01-01T00:00:00Z",
     tags |-> tags, viewCount |-> "100", likeCount |-> likeCount,
     commentCount |-> "2"]

ApiItems ==
    {api_item("v1", "Ann", <<"tv", "review">>, "9"),
     api_item("v2", "Ann", <<>>, None),
     api_item("v3", " Yến Nồi Cơm ðiện Official", <<"rice cooker">>, "7")}

\* excluded_channels, and _is_channel_excluded.
excluded_channels == <<"yến nồi cơm ðiện">>

is_channel_excluded(channel_title) ==
    IF ~truthy(channel_title) THEN FALSE
    ELSE any_in(excluded_channels, lower(strip(channel_title)))

\* s.split('T')[0]
before_T(s) ==
    LET at == {i \in 1..Len(s) : SubSeq(s, i, i) = "T"}
    IN  IF at = {} THEN s
        ELSE SubSeq(s, 1, (CHOOSE i \in at : \A j \in at : i <= j) - 1)

\* ', '.join(tags)
RECURSIVE joined(_)
joined(tags) ==
    IF tags = <<>> THEN ""
    ELSE IF Len(tags) = 1 THEN tags[1]
    ELSE tags[1] \o ", " \o joined(Tail(tags))

\* int(stats.get(name, 0)) for a statistic of decimal digits.
statistic(v) == IF v = None THEN 0 ELSE digits(v)

\* The video_data _get_video_details builds from one item.
video_data(api) ==
    [video_id |-> api.id,
     title |-> api.title,
     channel_id |-> api.channelId,
     channel_title |-> api.channelTitle,
     published_at |-> before_T(api.publishedAt),
     views |-> statistic(api.viewCount),
     likes |-> statistic(api.likeCount),
     comments |-> statistic(api.commentCount),
     tags |-> joined(api.tags)]

\* The keywords of a scraper run, and its queries: the keywords stripped.
ScraperKeywords == {"tivi", " quat", " "}
ScraperQueries == {strip(keyword) : keyword \in ScraperKeywords}

youtube_category_of ==
    [v \in RawVideos \cup {video_data(api) : api \in ApiItems},
     query \in Queries \cup ScraperQueries |->
        youtube_classify_category(v.title, v.tags, query)]

transform_video(raw_video, category, crawl_date) ==
    [master_doc |->
        [video_id |-> raw_video.video_id,
         title |-> raw_video.title,
         channel_id |-> raw_video.channel_id,
         channel_title |-> raw_video.channel_title,
         published_at |-> raw_video.published_at,
         category |-> category,
         platform |-> "youtube",
         tags |-> raw_video.tags,
         views |-> raw_video.views,
         likes |-> raw_video.likes,
         comments |-> raw_video.comments,
         first_crawl_date |-> crawl_date,
         last_crawl_date |-> crawl_date],
     history_doc |->
        [video_id |-> raw_video.video_id,
         views |-> raw_video.views,
         likes |-> raw_video.likes,
         comments |-> raw_video.comments,
         crawl_date |-> crawl_date,
         category |-> category,
         platform |-> "youtube"]]

\* The UpdateOne(..., upsert=True) insert_videos builds for one video.
video_UpdateOne(master_doc, crawl_date) ==
    [filter |-> master_doc.video_id,
     setOnInsert |-> [video_id |-> master_doc.video_id,
                      title |-> master_doc.title,
                      channel_id |-> master_doc.channel_id,
                      channel_title |-> master_doc.channel_title,
                      published_at |-> master_doc.published_at,
                      category |-> master_doc.category,
                      platform |-> master_doc.platform,
                      tags |-> master_doc.tags,
                      first_crawl_date |-> crawl_date],
     set |-> [views |-> master_doc.views,
              likes |-> master_doc.likes,
              comments |-> master_doc.comments,
              last_crawl_date |-> crawl_date]]

video_updated_doc(d, op) ==
    [d EXCEPT !.views = op.set.views,
              !.likes = op.set.likes,
              !.comments = op.set.comments,
              !.last_crawl_date = op.set.last_crawl_date]

video_upserted_doc(op, oid) ==
    [oid |-> oid] @@ op.setOnInsert @@ op.set

\* The loop of insert_videos over videos: a video without video_id is
\* skipped.
RECURSIVE prepare_videos(_, _, _)
prepare_videos(videos, query, crawl_date) ==
    IF videos = <<>> THEN [master_operations |-> <<>>, history_documents |-> <<>>]
    ELSE LET rest == prepare_videos(Tail(videos), query, crawl_date)
             video == Head(videos)
             docs == transform_video(video, youtube_category_of[video, query],
                                     crawl_date)
         IN  IF ~truthy(video.video_id) THEN rest
             ELSE [master_operations |->
                       <<video_UpdateOne(docs.master_doc, crawl_date)>>
                           \o rest.master_operations,
                   history_documents |->
                       <<docs.history_doc>> \o rest.history_documents]

\* youtube: create_indexes. Nothing is purged; over duplicates the unique
\* index on video_id is not built and the error is raised again.
youtube_create_indexes ==
    /\ program = "youtube"
    /\ LET built == \A d \in master, e \in master :
                        d.video_id = e.video_id => d = e
       IN  /\ unique_index' = (unique_index \/ built)
           /\ call' = [op |-> "create_indexes",
                       result |-> IF built THEN "returned" ELSE "raised"]
    /\ UNCHANGED <<program, posts, metrics_snapshot, collection_main,
                   collection_history, master, history, now, next_oid,
                   hashseed, budget, sightings, faults, runs>>

\* -------------------------------------------------------- concurrent runs

\* A run is one call of an ingest function by one process. Its steps on the
\* store are taken one at a time, those of other runs in between: an upsert
\* looks for its document and then writes; find_one is followed by
\* update_one or insert_one.

NoResult == [returned |-> FALSE]

new_run(op, operations, documents, first_pc) ==
    [op |-> op, pc |-> first_pc, ops |-> operations, docs |-> documents,
     i |-> 1, found |-> FALSE, inserted |-> 0, updated |-> 0, errors |-> 0,
     result |-> NoResult]

race_frame == <<program, unique_index, hashseed, call, budget, sightings, faults>>

RacePosts == {post_a("101"), post_b("101"), post_a("102")}
RaceVideos == {raw_video_a("v1"), raw_video_b("v1"), raw_video_a("v2")}
RaceProducts == {item_a("11"), item_b("11"), item_a("12")}
RaceTikToks ==
    {[video |-> v, category |-> "quat"] :
        v \in {video_a("701", None), video_b("701", None), video_a("702", None)}}

race_batches(pool) == UNION {[1..n -> pool] : n \in 1..MaxRaceBatch}

\* insert_posts / insert_posts_with_metrics up to the bulk_write.
begin_insert_posts(module) ==
    /\ Len(runs) < MaxRuns
    /\ \E scraped_posts \in race_batches(RacePosts), keyword \in Keywords :
          LET session_id == session_id_at(now)
              prepared == prepare([post_operations |-> <<>>,
                                   metrics_documents |-> <<>>, t |-> now],
                                  scraped_posts, 1, keyword, session_id, module)
          IN  /\ runs' = Append(runs, new_run("insert_posts",
                                              prepared.post_operations,
                                              prepared.metrics_documents,
                                              "find"))
              /\ now' = prepared.t + Tick
    /\ UNCHANGED <<posts, metrics_snapshot, other_stores, next_oid, race_frame>>

race_insert_posts ==
    /\ program = "facebook"
    /\ begin_insert_posts("facebook")

race_insert_posts_with_metrics ==
    /\ program = "legacy"
    /\ begin_insert_posts("core")

\* insert_videos up to the bulk_write.
race_insert_videos ==
    /\ program = "youtube"
    /\ Len(runs) < MaxRuns
    /\ \E videos \in race_batches(RaceVideos), query \in Queries :
          LET prepared == prepare_videos(videos, query, strftime_day(now))
          IN  runs' = Append(runs, new_run("insert_videos",
                                           prepared.master_operations,
                                           prepared.history_documents,
                                           "find"))
    /\ now' = now + Tick
    /\ UNCHANGED <<posts, metrics_snapshot, other_stores, next_oid, race_frame>>

\* The master collection of the upserting programs, and their documents.
upsert_matching(op) ==
    IF program = "youtube" THEN {d \in master : d.video_id = op.filter}
    ELSE matching(posts, op.filter)

upsert_updated(d, op) ==
    IF program = "youtube" THEN video_updated_doc(d, op) ELSE updated_doc(d, op)

upsert_inserted(op, oid) ==
    IF program = "youtube" THEN video_upserted_doc(op, oid)
    ELSE upserted_doc(op, oid)

\* One upsert of the bulk_write looks for the document of its filter.
bulk_write_find ==
    /\ program \in {"facebook", "legacy", "youtube"}
    /\ \E r \in 1..Len(runs) :
          /\ runs[r].pc = "find"
          /\ runs[r].ops # <<>>
          /\ runs' = [runs EXCEPT
                         ![r].found = upsert_matching(runs[r].ops[runs[r].i]) # {},
                         ![r].pc = "apply"]
    /\ UNCHANGED <<posts, metrics_snapshot, other_stores, now, next_oid,
                   race_frame>>

\* What the upsert then does: update the document it found; insert when it
\* found none. When another run has inserted the document in between, the
\* insert makes a second document if there is no unique index; under the
\* unique index it is a duplicate key, which the server either retries as
\* an update or reports as a write error.
upsert_outcomes(found, op, oid) ==
    LET matches == upsert_matching(op)
        d == CHOOSE x \in matches : \A y \in matches : x.oid <= y.oid
        update == [put |-> {upsert_updated(d, op)}, drop |-> {d}, oids |-> 0,
                   upserted |-> 0,
                   modified |-> IF upsert_updated(d, op) # d THEN 1 ELSE 0,
                   error |-> 0]
        insert == [put |-> {upsert_inserted(op, oid)}, drop |-> {}, oids |-> 1,
                   upserted |-> 1, modified |-> 0, error |-> 0]
        failure == [put |-> {}, drop |-> {}, oids |-> 0,
                    upserted |-> 0, modified |-> 0, error |-> 1]
    IN  IF matches = {} THEN {insert}
        ELSE IF found THEN {update}
        ELSE IF unique_index THEN {update, failure}
        ELSE {insert}

bulk_write_apply ==
    /\ program \in {"facebook", "legacy", "youtube"}
    /\ \E r \in 1..Len(runs) :
          /\ runs[r].pc = "apply"
          /\ \E out \in upsert_outcomes(runs[r].found, runs[r].ops[runs[r].i],
                                        next_oid) :
                /\ IF program = "youtube"
                   THEN /\ master' = (master \ out.drop) \cup out.put
                        /\ UNCHANGED posts
                   ELSE /\ posts' = (posts \ out.drop) \cup out.put
                        /\ UNCHANGED master
                /\ next_oid' = next_oid + out.oids
                /\ runs' = [runs EXCEPT
                               ![r].inserted = @ + out.upserted,
                               ![r].updated = @ + out.modified,
                               ![r].errors = @ + out.error,
                               ![r].i = @ + 1,
                               ![r].pc = IF runs[r].i < Len(runs[r].ops)
                                         THEN "find" ELSE "snapshots"]
    /\ UNCHANGED <<metrics_snapshot, collection_main, collection_history,
                   history, now, race_frame>>

\* The rest of the call: after the bulk_write (skipped when there is no
\* operation) the snapshots are inserted and the counts are returned.
insert_snapshots ==
    /\ program \in {"facebook", "legacy", "youtube"}
    /\ \E r \in 1..Len(runs) :
          /\ \/ runs[r].pc = "snapshots"
             \/ runs[r].pc = "find" /\ runs[r].ops = <<>>
          /\ LET coll == IF program = "youtube" THEN history ELSE metrics_snapshot
                 appended == insert_many([coll |-> coll, oid |-> next_oid,
                                          inserted |-> 0, writeErrors |-> 0],
                                         runs[r].docs, 1, {})
                 ok == runs[r].errors = 0
             IN  /\ IF program = "youtube"
                    THEN /\ history' = appended.coll
                         /\ UNCHANGED metrics_snapshot
                    ELSE /\ metrics_snapshot' = appended.coll
                         /\ UNCHANGED history
                 /\ next_oid' = appended.oid
                 /\ runs' = [runs EXCEPT
                                ![r].pc = "done",
                                ![r].result =
                                   [returned |-> TRUE,
                                    inserted |-> IF ok THEN runs[r].inserted ELSE 0,
                                    updated |-> IF ok THEN runs[r].updated ELSE 0,
                                    snapshots |-> appended.inserted,
                                    errors |-> runs[r].errors]]
    /\ UNCHANGED <<posts, master, collection_main, collection_history, now,
                   race_frame>>

\* insert_products_batch / insert_videos_batch up to the first write.
begin_batch(name, pool, key) ==
    /\ Len(runs) < MaxRuns
    /\ \E items \in race_batches(pool) :
          LET now_vn == strftime_second(now)
              rows == IF name = "shopee" THEN shopee_rows(items, now_vn)
                      ELSE tiktok_rows(items, now_vn)
          IN  runs' = Append(runs,
                             new_run("batch",
                                     main_docs_of(<<>>, column(rows, "main"), key),
                                     column(rows, "history"), "history"))
    /\ now' = now + Tick
    /\ UNCHANGED <<posts, metrics_snapshot, other_stores, next_oid, race_frame>>

race_insert_products_batch ==
    /\ program = "shopee"
    /\ begin_batch("shopee", RaceProducts, "itemid")

race_insert_videos_batch ==
    /\ program = "tiktok"
    /\ begin_batch("tiktok", RaceTikToks, "id")

batch_key == IF program = "shopee" THEN "itemid" ELSE "id"

\* collection_history.insert_many(history_rows)
history_insert_many ==
    /\ program \in {"shopee", "tiktok"}
    /\ \E r \in 1..Len(runs) :
          /\ runs[r].pc = "history"
          /\ LET appended == insert_ordered([coll |-> collection_history,
                                             oid |-> next_oid, inserted |-> 0,
                                             raised |-> FALSE],
                                            runs[r].docs, 1, 0)
             IN  /\ collection_history' = appended.coll
                 /\ next_oid' = appended.oid
                 /\ runs' = [runs EXCEPT ![r].pc = "find_one"]
    /\ UNCHANGED <<posts, metrics_snapshot, collection_main, master, history,
                   now, race_frame>>

\* existing = collection_main.find_one({key: doc[key]})
find_one ==
    /\ program \in {"shopee", "tiktok"}
    /\ \E r \in 1..Len(runs) :
          /\ runs[r].pc = "find_one"
          /\ runs' = [runs EXCEPT
                         ![r].found =
                            \E d \in collection_main :
                               d[batch_key] = runs[r].ops[runs[r].i][batch_key],
                         ![r].pc = "write_one"]
    /\ UNCHANGED <<posts, metrics_snapshot, other_stores, now, next_oid,
                   race_frame>>

\* if existing: update_one(...) else: insert_one(doc). Under the unique
\* index insert_one of an id that is there by now raises DuplicateKeyError,
\* which nothing catches.
write_one ==
    /\ program \in {"shopee", "tiktok"}
    /\ \E r \in 1..Len(runs) :
          /\ runs[r].pc = "write_one"
          /\ LET doc == runs[r].ops[runs[r].i]
                 matches == {d \in collection_main : d[batch_key] = doc[batch_key]}
                 d == CHOOSE x \in matches : \A y \in matches : x.oid <= y.oid
                 last == runs[r].i = Len(runs[r].ops)
                 finish(run) ==
                     IF last
                     THEN [run EXCEPT !.pc = "done",
                                      !.result = [returned |-> TRUE,
                                                  inserted |-> run.inserted,
                                                  updated |-> run.updated,
                                                  snapshots |-> Len(run.docs),
                                                  errors |-> 0]]
                     ELSE [run EXCEPT !.pc = "find_one", !.i = @ + 1]
             IN  IF runs[r].found
                 THEN /\ collection_main' =
                             IF matches = {} THEN collection_main
                             ELSE (collection_main \ {d}) \cup
                                     {[d EXCEPT !.last_day_crawling =
                                                    doc.last_day_crawling]}
                      /\ next_oid' = next_oid
                      /\ runs' = [runs EXCEPT
                                     ![r] = finish([runs[r] EXCEPT
                                                       !.updated = @ + 1])]
                 ELSE IF unique_index /\ matches # {}
                 THEN /\ runs' = [runs EXCEPT ![r].pc = "raised"]
                      /\ UNCHANGED <<collection_main, next_oid>>
                 ELSE /\ collection_main' =
                             collection_main \cup {[oid |-> next_oid] @@ doc}
                      /\ next_oid' = next_oid + 1
                      /\ runs' = [runs EXCEPT
                                     ![r] = finish([runs[r] EXCEPT
                                                       !.inserted = @ + 1])]
    /\ UNCHANGED <<posts, metrics_snapshot, collection_history, master,
                   history, now, race_frame>>

\* ------------------------------------------------------- specifications

NoCall == [op |-> "none"]

InitRest ==
    /\ collection_main = {}
    /\ collection_history = {}
    /\ master = {}
    /\ history = {}
    /\ unique_index = FALSE
    /\ now = StartTime
    /\ hashseed = 0
    /\ call = NoCall
    /\ sightings = [id \in NativeIds |-> [calls |-> 0, entities |-> 0]]
    /\ runs = <<>>

InitStores ==
    /\ posts = {}
    /\ metrics_snapshot = {}
    /\ next_oid = 1
    /\ InitRest

\* Every program on an empty database, the store accepting every write.
Init ==
    /\ program \in {"facebook", "legacy", "shopee", "tiktok"}
    /\ InitStores
    /\ faults = 0
    /\ budget = MaxEntities

Next ==
    \/ insert_posts
    \/ insert_posts_with_metrics
    \/ insert_products_batch
    \/ insert_videos_batch
    \/ get_trending_posts
    \/ core_get_trending_posts
    \/ get_post_metrics_history

Spec == Init /\ [][Next]_vars

\* A posts collection written before the unique index on post_id existed,
\* the case clean_null_post_ids and clean_duplicate_posts are there for: two
\* documents of one post_id, one without post_id, and one snapshot.
legacy_post(oid, post_id, t) ==
    [upserted_doc(UpdateOne(transform_post(post_a("101"), "tivi",
                                           session_id_at(t), t).post_doc,
                            "tivi", session_id_at(t)),
                  oid)
        EXCEPT !.post_id = post_id]

LegacyPosts ==
    {legacy_post(1, "facebook_101", StartTime - 2 * Tick),
     legacy_post(2, "facebook_101", StartTime - Tick),
     legacy_post(3, None, StartTime - Tick)}

LegacyMetrics ==
    {[oid |-> 4] @@ transform_post(post_a("101"), "tivi",
                                   session_id_at(StartTime - 2 * Tick),
                                   StartTime - 2 * Tick).metrics_doc}

\* Every program with the maintenance operations, on an empty or a legacy
\* database, the store rejecting up to MaxFaults writes.
InitFault ==
    /\ program \in {"facebook", "legacy", "shopee", "tiktok"}
    /\ \/ InitStores
       \/ /\ program \in {"facebook", "legacy"}
          /\ posts = LegacyPosts
          /\ metrics_snapshot = LegacyMetrics
          /\ next_oid = 5
          /\ InitRest
    /\ faults = MaxFaults
    /\ budget = MaxFaultEntities

NextFault ==
    \/ insert_posts
    \/ insert_posts_with_metrics
    \/ insert_products_batch
    \/ insert_videos_batch
    \/ create_indexes
    \/ core_create_indexes
    \/ shopee_create_indexes
    \/ tiktok_create_indexes
    \/ clean_null_post_ids
    \/ clean_duplicate_posts
    \/ get_trending_posts
    \/ core_get_trending_posts
    \/ get_post_metrics_history

SpecFault == InitFault /\ [][NextFault]_vars

\* Up to MaxRuns concurrent runs of one program's ingest function on an
\* empty database, create_indexes called at any moment.
InitRace ==
    /\ program \in {"facebook", "legacy", "youtube", "shopee", "tiktok"}
    /\ InitStores
    /\ faults = 0
    /\ budget = 0

NextRace ==
    \/ race_insert_posts
    \/ race_insert_posts_with_metrics
    \/ race_insert_videos
    \/ bulk_write_find
    \/ bulk_write_apply
    \/ insert_snapshots
    \/ race_insert_products_batch
    \/ race_insert_videos_batch
    \/ history_insert_many
    \/ find_one
    \/ write_one
    \/ create_indexes
    \/ core_create_indexes
    \/ youtube_create_indexes
    \/ shopee_create_indexes
    \/ tiktok_create_indexes

SpecRace == InitRace /\ [][NextRace]_vars

\* ---------------------------------------------------- facebook: the parser

\* A decoded JSON value or an exception in flight: its Python type, the
\* entries of a dict or a list in order, the text of a str, the number of
\* an int.
value(type, items, text, number) ==
    [type |-> type, items |-> items, text |-> text, number |-> number]
null == value("NoneType", <<>>, "", 0)
str(s) == value("str", <<>>, s, 0)
int(n) == value("int", <<>>, "", n)
dict(items) == value("dict", items, "", 0)
list(items) == value("list", items, "", 0)
raise(exception) == value(exception, <<>>, "", 0)
raised(v) ==
    v.type \in {"IndexError", "AttributeError", "ValueError", "TypeError",
                "JSONDecodeError"}
item(key, v) == [key |-> key, value |-> v]

\* bool(v): what `if v` and `v or w` test.
is_true(v) ==
    CASE v.type = "NoneType" -> FALSE
      [] v.type = "str" -> v.text # ""
      [] v.type = "int" -> v.number # 0
      [] OTHER -> v.items # <<>>

\* obj.get(key, default): for a dict, the value under the key or the default
\* (the keys of a decoded JSON object are strs, so an int is never one of
\* them); any other object has no attribute get.
get_or(obj, key, default) ==
    IF raised(obj) THEN obj
    ELSE IF obj.type # "dict" THEN raise("AttributeError")
    ELSE LET at == {i \in 1..Len(obj.items) :
                       key.type = "str" /\ obj.items[i].key = key.text}
         IN  IF at = {} THEN default
             ELSE obj.items[CHOOSE i \in at : TRUE].value

get(obj, key) == get_or(obj, key, null)

\* d[key] = v
setitem(d, key, v) ==
    IF \E i \in 1..Len(d.items) : d.items[i].key = key
    THEN dict([i \in 1..Len(d.items) |->
                  IF d.items[i].key = key THEN item(key, v) ELSE d.items[i]])
    ELSE dict(Append(d.items, item(key, v)))

\* obj[path] of a list: negative indices count from the end.
getitem(obj, path) ==
    LET n == Len(obj.items)
    IN  IF path >= 0 /\ path < n THEN obj.items[path + 1].value
        ELSE IF path < 0 /\ path >= -n THEN obj.items[n + path + 1].value
        ELSE raise("IndexError")

\* obj[path] for every path without the isinstance tests and the try.
RECURSIVE unsafe_get(_, _)
unsafe_get(obj, paths) ==
    IF paths = <<>> \/ raised(obj) THEN obj
    ELSE IF obj.type = "dict"
    THEN unsafe_get(get(obj, Head(paths)), Tail(paths))
    ELSE IF obj.type = "list" /\ Head(paths).type = "int"
    THEN unsafe_get(getitem(obj, Head(paths).number), Tail(paths))
    ELSE raise("AttributeError")

RECURSIVE safe_get(_, _)
safe_get(obj, paths) ==
    IF paths = <<>> THEN obj
    ELSE IF obj.type = "NoneType" THEN null
    ELSE IF obj.type = "dict"
    THEN safe_get(get(obj, Head(paths)), Tail(paths))
    ELSE IF obj.type = "list" /\ Head(paths).type = "int"
    THEN LET v == getitem(obj, Head(paths).number)
         IN  IF raised(v) THEN null ELSE safe_get(v, Tail(paths))
    ELSE null

\* The path segments 'a', 'b', ... of a safe_get call.
keys(names) == [i \in 1..Len(names) |-> str(names[i])]

\* (author_id, author_name) after `author_id = actor.get('id')` and
\* `author_name = actor.get('name')`.
tuple(a, b) == list(<<item("", a), item("", b)>>)
author_of(actor) ==
    IF raised(get(actor, str("id"))) THEN get(actor, str("id"))
    ELSE tuple(get(actor, str("id")), get(actor, str("name")))

\* The three methods in turn, each one returning when it has found a truthy
\* id, then the name of the first actor or 'Unknown', and the id made of
\* the hash of the name.
extract_author_info(story) ==
    LET found(author) == raised(author) \/ is_true(author.items[1].value)
        actors == safe_get(story, keys(<<"comet_sections", "content",
                                         "story", "actors">>))
        method_1 == IF is_true(actors) /\ actors.type = "list"
                    THEN author_of(getitem(actors, 0))
                    ELSE tuple(null, null)
        profile == safe_get(story, keys(<<"comet_sections", "feedback",
                      "story", "story_ufi_container", "story",
                      "feedback_context", "feedback_target_with_context",
                      "owning_profile">>))
        method_2 == IF is_true(profile) THEN author_of(profile)
                    ELSE method_1
        context_actors ==
            safe_get(story, keys(<<"comet_sections", "context_layout",
                      "story", "comet_sections", "actor_photo", "story",
                      "actors">>))
        method_3 == IF is_true(context_actors) /\ context_actors.type = "list"
                    THEN author_of(getitem(context_actors, 0))
                    ELSE method_2
        first_name == safe_get(story, keys(<<"comet_sections", "content",
                                             "story", "actors">>)
                                      \o <<int(0), str("name")>>)
        author_name ==
            IF is_true(method_3.items[2].value) THEN method_3.items[2].value
            ELSE IF is_true(first_name) THEN first_name
            ELSE str("Unknown")
    IN  IF found(method_1) THEN method_1
        ELSE IF found(method_2) THEN method_2
        ELSE IF found(method_3) THEN method_3
        ELSE tuple(str("fb_user_"
                       \o ToString(hash(author_name.text) % HashModulus)),
                   author_name)

\* str.upper(), str.replace(old, '') for a character.
upper_char(c) ==
    IF \E i \in 1..Len(LowerCase) : LowerCase[i] = c
    THEN UpperCase[CHOOSE i \in 1..Len(LowerCase) : LowerCase[i] = c]
    ELSE c

RECURSIVE upper(_)
upper(s) ==
    IF s = "" THEN ""
    ELSE upper_char(SubSeq(s, 1, 1)) \o upper(SubSeq(s, 2, Len(s)))

\* A replace that replaces nothing.
unreplaced(s, old) == s

RECURSIVE remove(_, _)
remove(s, old) ==
    IF s = "" THEN ""
    ELSE (IF SubSeq(s, 1, 1) = old THEN "" ELSE SubSeq(s, 1, 1))
         \o remove(SubSeq(s, 2, Len(s)), old)

\* float(s) * scale, then int(): s is stripped, may carry a sign, and is
\* digits with at most one point and a digit on one side of it; int() cuts
\* the fraction off towards zero. Any other text is a ValueError.
RECURSIVE int_of_float(_, _)
int_of_float(s, scale) ==
    LET t == strip(s)
        point == {i \in 1..Len(t) : SubSeq(t, i, i) = "."}
        i == CHOOSE i \in point : TRUE
        whole == IF point = {} THEN t ELSE SubSeq(t, 1, i - 1)
        fraction == IF point = {} THEN "" ELSE SubSeq(t, i + 1, Len(t))
        shift == IF fraction = "" THEN 1 ELSE 10 ^ Len(fraction)
        number(text) == IF text = "" THEN 0 ELSE digits(text)
    IN  IF t # "" /\ SubSeq(t, 1, 1) \in {"-", "+"}
        THEN LET v == int_of_float(SubSeq(t, 2, Len(t)), scale)
             IN  IF raised(v) \/ SubSeq(t, 2, 2) \in {"-", "+", " "}
                 THEN raise("ValueError")
                 ELSE IF SubSeq(t, 1, 1) = "-" THEN int(-v.number) ELSE v
        ELSE IF whole \o fraction = ""
                \/ number(whole) < 0 \/ number(fraction) < 0
        THEN raise("ValueError")
        ELSE int(((number(whole) * shift + number(fraction)) * scale)
                 \div shift)

\* int(s): s is stripped, may carry a sign, and is decimal digits.
int_of(s) ==
    IF \E i \in 1..Len(s) : SubSeq(s, i, i) = "." THEN raise("ValueError")
    ELSE int_of_float(s, 1)

parse_count(count_str) ==
    LET s == strip(remove(upper(count_str.text), ","))
        caught(v) == IF raised(v) THEN int(0) ELSE v
    IN  IF count_str.type = "int" THEN count_str
        ELSE IF count_str.type # "str" THEN int(0)
        ELSE IF contains(s, "K") THEN int_of_float(remove(s, "K"), 1000)
        ELSE IF contains(s, "M") THEN int_of_float(remove(s, "M"), 1000000)
        ELSE caught(int_of(s))

\* a or b
or_else(a, b) == IF raised(a) \/ is_true(a) THEN a ELSE b

\* `if name and count: reactions[name] = parse_count(count)`, parsed being
\* parse_count(count).
add_reaction(reactions, name, count, parsed) ==
    IF raised(reactions) THEN reactions
    ELSE IF raised(name) THEN name
    ELSE IF raised(count) THEN count
    ELSE IF ~(is_true(name) /\ is_true(count)) THEN reactions
    ELSE IF raised(parsed) THEN parsed
    ELSE setitem(reactions, name.text, parsed)

\* What `for x in v` does with a truthy value that is not a list: the keys
\* of a dict and the characters of a str are strs, without a get; anything
\* else is not iterable.
iterated(v) ==
    IF v.type \in {"dict", "str"} THEN raise("AttributeError")
    ELSE raise("TypeError")

\* The loop over top_reactions.edges.
RECURSIVE top_reactions_of(_, _)
top_reactions_of(reactions, edges) ==
    LET edge == Head(edges).value
        node == get_or(edge, str("node"), dict(<<>>))
        count == or_else(get(edge, str("reaction_count")),
                         get(edge, str("i18n_reaction_count")))
    IN  IF edges = <<>> \/ raised(reactions) THEN reactions
        ELSE top_reactions_of(
                 add_reaction(reactions,
                              or_else(get(node, str("localized_name")),
                                      get(node, str("reaction_type"))),
                              count, parse_count(count)),
                 Tail(edges))

extract_reactions(story) ==
    LET ufi_feedback ==
            safe_get(story, keys(<<"comet_sections", "feedback", "story",
                "story_ufi_container", "story", "feedback_context",
                "feedback_target_with_context",
                "comet_ufi_summary_and_actions_renderer", "feedback">>))
        total == get(ufi_feedback, str("i18n_reaction_count"))
        reactions ==
            add_reaction(dict(<<>>), str("total"), total, parse_count(total))
        top_reactions ==
            safe_get(ufi_feedback, keys(<<"top_reactions", "edges">>))
    IN  IF ~is_true(ufi_feedback) THEN dict(<<>>)
        ELSE IF raised(reactions) \/ ~is_true(top_reactions) THEN reactions
        ELSE IF top_reactions.type = "list"
        THEN top_reactions_of(reactions, top_reactions.items)
        ELSE iterated(top_reactions)

\* The loop over the attachments; an exception inside the try is a
\* `continue`.
RECURSIVE attachments_of(_)
attachments_of(story_attachments) ==
    LET att == Head(story_attachments).value
        media == safe_get(att, keys(<<"styles", "attachment", "media">>))
        is_dict == media.type = "dict"
        first_url == safe_get(att, keys(<<"styles", "attachment", "url">>))
        url == IF is_true(first_url) THEN first_url
               ELSE get(media, str("url"))
        first_thumb == safe_get(media, keys(<<"thumbnailImage", "uri">>))
        thumb == IF is_true(first_thumb) THEN first_thumb
                 ELSE safe_get(media,
                          keys(<<"preferred_story_attachment_image", "uri">>))
        id == IF is_dict THEN get(media, str("id")) ELSE null
        att_obj ==
            dict(<<item("type", IF is_dict THEN get(media, str("__typename"))
                                ELSE null),
                   item("id", id),
                   item("url", url),
                   item("thumbnail", thumb)>>)
    IN  IF story_attachments = <<>> THEN <<>>
        ELSE (IF is_true(media) /\ ~raised(url)
                 /\ (is_true(url) \/ is_true(id))
              THEN <<item("", att_obj)>> ELSE <<>>)
             \o attachments_of(Tail(story_attachments))

extract_attachments(story) ==
    LET story_attachments == get_or(story, str("attachments"), list(<<>>))
    IN  IF raised(story_attachments) THEN story_attachments
        ELSE IF ~is_true(story_attachments) THEN list(<<>>)
        ELSE IF story_attachments.type = "list"
        THEN list(attachments_of(story_attachments.items))
        ELSE IF story_attachments.type \in {"dict", "str"} THEN list(<<>>)
        ELSE raise("TypeError")

\* `int(v) if v else 0`
int_if(v) ==
    IF ~is_true(v) THEN int(0)
    ELSE IF v.type = "int" THEN v
    ELSE IF v.type = "str" THEN int_of(v.text)
    ELSE raise("TypeError")

\* The dict of the entries, or the exception of the first entry that
\* raises.
returned(entries) ==
    LET raising == {i \in 1..Len(entries) : raised(entries[i].value)}
    IN  IF raising = {} THEN dict(entries)
        ELSE entries[CHOOSE i \in raising : \A j \in raising : i <= j].value

\* The first or the second of (author_id, author_name).
author_item(author, i) ==
    IF raised(author) THEN author ELSE author.items[i].value

\* The post of a result node read at time t: None when the node has no
\* story.
extract_post_from_node(node, keyword, t) ==
    LET story == safe_get(node, keys(<<"rendering_strategy", "view_model",
                                       "click_model", "story">>))
        feedback(names) ==
            safe_get(story, keys(<<"comet_sections", "feedback", "story",
                "story_ufi_container", "story", "feedback_context",
                "feedback_target_with_context",
                "comet_ufi_summary_and_actions_renderer", "feedback">>
                \o names))
    IN  IF ~is_true(story) THEN null
        ELSE returned(
          <<item("id", get(story, str("id"))),
            item("type", get_or(story, str("__typename"), str("Story"))),
            item("keyword", str(keyword)),
            item("collected_at", int(t)),
            item("extraction_method", str("graphql")),
            item("text",
                or_else(or_else(
                    safe_get(story, keys(<<"comet_sections", "content",
                        "story", "comet_sections", "message", "story",
                        "message", "text">>)),
                    safe_get(story, keys(<<"message", "text">>))),
                    str(""))),
            item("author_id", author_item(extract_author_info(story), 1)),
            item("owner", author_item(extract_author_info(story), 2)),
            item("publish_time",
                or_else(or_else(
                    safe_get(story, keys(<<"comet_sections", "timestamp",
                        "story", "creation_time">>)),
                    safe_get(story,
                        keys(<<"comet_sections", "context_layout", "story",
                               "comet_sections", "metadata">>)
                        \o <<int(1)>>
                        \o keys(<<"story", "creation_time">>))),
                    int(0))),
            item("comment_count",
                int_if(feedback(<<"comments_count_summary_renderer",
                    "feedback", "comment_rendering_instance", "comments",
                    "total_count">>))),
            item("share_count", int_if(feedback(<<"share_count", "count">>))),
            item("view_count",
                int_if(safe_get(story, <<str("attachments"), int(0)>>
                    \o keys(<<"styles", "attachment", "media",
                              "video_view_count">>)))),
            item("reactions", extract_reactions(story)),
            item("attachments", extract_attachments(story))>>)

\* `if post and post.get('id')` and the quality filter: the post is
\* appended when it has an id and text or attachments; an exception of the
\* extraction is logged.
appended(post) ==
    IF ~raised(post) /\ is_true(post) /\ is_true(get(post, str("id")))
       /\ (is_true(get(post, str("text")))
           \/ is_true(get(post, str("attachments"))))
    THEN <<item("", post)>>
    ELSE <<>>

\* The loop with a `break` at the first node that gives no post.
RECURSIVE extract_first_posts(_, _, _)
extract_first_posts(edges, keyword, t) ==
    IF edges = <<>>
       \/ appended(extract_post_from_node(Head(edges).value, keyword, t)) = <<>>
    THEN <<>>
    ELSE appended(extract_post_from_node(Head(edges).value, keyword, t))
         \o extract_first_posts(Tail(edges), keyword, t)

\* The loop of _parse_responses over the result nodes of a chunk.
RECURSIVE extract_posts(_, _, _)
extract_posts(edges, keyword, t) ==
    IF edges = <<>> THEN <<>>
    ELSE appended(extract_post_from_node(Head(edges).value, keyword, t))
         \o extract_posts(Tail(edges), keyword, t)

\* The counts of the metrics document that transform_post builds from a
\* post of the extractor.
without_total(reactions) ==
    dict(SelectSeq(reactions.items, LAMBDA entry : entry.key # "total"))
metrics_doc(raw_post) ==
    dict(<<item("likes", get_or(get_or(raw_post, str("reactions"), dict(<<>>)),
                                str("total"), int(0))),
           item("comments", get_or(raw_post, str("comment_count"), int(0))),
           item("shares", get_or(raw_post, str("share_count"), int(0))),
           item("views", get_or(raw_post, str("view_count"), int(0))),
           item("reaction_breakdown",
                without_total(get_or(raw_post, str("reactions"),
                                     dict(<<>>))))>>)

\* ----------------------------------------------------- the parser: inputs

\* Objects of up to two levels and paths of up to MaxPath segments.
Scalars == {null, str("x"), int(7)}
containers(values) ==
    {dict(<<>>), list(<<>>)}
    \cup {dict(<<item("a", v)>>) : v \in values}
    \cup {dict(<<item("b", str("x")), item("a", v)>>) : v \in values}
    \cup {list(<<item("", v)>>) : v \in values}
    \cup {list(<<item("", str("x")), item("", v)>>) : v \in values}
Objects == Scalars \cup containers(Scalars \cup containers(Scalars))

RECURSIVE sequences(_, _)
sequences(values, n) ==
    IF n = 0 THEN {<<>>}
    ELSE sequences(values, n - 1)
         \cup {Append(s, v) : s \in sequences(values, n - 1), v \in values}
Paths ==
    sequences({str("a"), str("b"), int(0), int(1), int(2), int(-1)}, MaxPath)

\* Count texts of up to MaxCountLen characters, the count strings of the
\* docstring, and counts that are no str.
CountChars == {"2", "9", ".", ",", "K", "m", "x", "-", " "}
RECURSIVE texts(_)
texts(n) ==
    IF n = 0 THEN {""}
    ELSE texts(n - 1) \cup {s \o c : s \in texts(n - 1), c \in CountChars}
Counts ==
    {str(s) : s \in texts(MaxCountLen)
                    \cup {"2.9K", "1.5M", "298", "1,234", "garbage"}}
    \cup {int(42), int(0), int(-3), null, list(<<>>)}

\* A dict along a path of keys down to v.
RECURSIVE nest(_, _)
nest(names, v) ==
    IF names = <<>> THEN v
    ELSE dict(<<item(Head(names), nest(Tail(names), v))>>)

\* Stories by what the three author methods find.
named(id, name) ==
    dict((IF id = None THEN <<>> ELSE <<item("id", str(id))>>)
         \o <<item("name", str(name))>>)
story_of(id, text, actors, profile, context_actors, extras) ==
    dict(<<item("id", id),
           item("message", dict(<<item("text", text)>>)),
           item("comet_sections", dict(<<
               item("content", nest(<<"story", "actors">>, actors)),
               item("feedback", nest(<<"story", "story_ufi_container",
                   "story", "feedback_context",
                   "feedback_target_with_context">>,
                   dict(<<item("owning_profile", profile)>> \o extras))),
               item("context_layout", nest(<<"story", "comet_sections",
                   "actor_photo", "story", "actors">>, context_actors))>>))>>)
FirstActors ==
    {named("11", "An"), named(None, "An"), named("", "An"),
     dict(<<item("id", str("11"))>>), str("An")}
Stories ==
    {story_of(str("101"), str("tivi"), actors, profile, context_actors, <<>>) :
        actors \in {null, list(<<>>)}
                   \cup {list(<<item("", a)>>) : a \in FirstActors},
        profile \in {null, named("22", "Binh"), named(None, "Binh")},
        context_actors \in {null, list(<<item("", named("33", "Chi"))>>),
                            list(<<item("", named(None, "Chi"))>>)}}

\* Result nodes without the story path, and result nodes with a story.
node_of(story) ==
    nest(<<"rendering_strategy", "view_model", "click_model", "story">>,
         story)
AbsentNodes ==
    {null, dict(<<>>), str("x"), list(<<>>),
     nest(<<"rendering_strategy">>, null),
     nest(<<"rendering_strategy">>, str("x")),
     nest(<<"rendering_strategy">>, dict(<<>>)),
     nest(<<"rendering_strategy", "view_model">>, list(<<item("", int(7))>>)),
     nest(<<"rendering_strategy", "view_model", "click_model">>, dict(<<>>)),
     node_of(null)}
counted(total_count) ==
    <<item("comet_ufi_summary_and_actions_renderer",
           nest(<<"feedback", "comments_count_summary_renderer", "feedback",
                  "comment_rendering_instance", "comments", "total_count">>,
                total_count))>>
StoryNodes ==
    {node_of(story_of(id, text, list(<<item("", named("11", "An"))>>), null,
                      null, extras)) :
        id \in {str("101"), str("102"), null},
        text \in {str("tivi"), str("")},
        extras \in {<<>>, counted(int(5)), counted(str("2K"))}}
    \cup {node_of(str("x")), node_of(dict(<<>>))}
\* Result nodes whose counters hold negative numbers and negative count
\* strings.
summary(feedback) ==
    <<item("comet_ufi_summary_and_actions_renderer",
           dict(<<item("feedback", feedback)>>))>>
reacted(total, count) ==
    dict(<<item("i18n_reaction_count", total),
           item("top_reactions", nest(<<"edges">>, list(<<item("",
               dict(<<item("node", dict(<<item("localized_name",
                                               str("Like"))>>)),
                      item("reaction_count", count)>>))>>)))>>)
shared(count) == dict(<<item("share_count", nest(<<"count">>, count))>>)
viewed(story, video_view_count) ==
    setitem(story, "attachments",
            list(<<item("", nest(<<"styles", "attachment", "media",
                                   "video_view_count">>,
                                 video_view_count))>>))
actor_story(extras) ==
    story_of(str("101"), str("tivi"), list(<<item("", named("11", "An"))>>),
             null, null, extras)
CountNodes ==
    {node_of(actor_story(extras)) :
        extras \in {counted(int(-5)), counted(str("-5")), counted(int(0)),
                    summary(reacted(str("2.9K"), int(7))),
                    summary(reacted(str("-3"), int(-1))),
                    summary(reacted(int(-3), str("-2K"))),
                    summary(shared(int(4))), summary(shared(int(-2)))}}
    \cup {node_of(viewed(actor_story(<<>>), v)) : v \in {int(9), int(-9)}}
Chunks ==
    sequences({item("", node) : node \in AbsentNodes \cup StoryNodes}, MaxChunk)

\* ---------------------------------------------------- facebook: the scraper

\* json.loads, for the texts a capture is made of here: objects, arrays,
\* strings without escapes, integers and null, with blanks between the
\* tokens. A scan gives the value and the index after it, or the error.
char(s, i) == IF 1 <= i /\ i <= Len(s) THEN SubSeq(s, i, i) ELSE ""
scanned(v, end) == [value |-> v, end |-> end]
JSONDecodeError == scanned(raise("JSONDecodeError"), 0)

RECURSIVE skip(_, _)
skip(s, i) == IF char(s, i) = " " THEN skip(s, i + 1) ELSE i

\* s.find(c) from index i on; 0 stands for Python's -1.
first_of(indices) ==
    IF indices = {} THEN 0
    ELSE CHOOSE i \in indices : \A j \in indices : i <= j
find_from(s, c, i) == first_of({j \in i..Len(s) : SubSeq(s, j, j) = c})
find(s, c) == find_from(s, c, 1)

is_digit(c) == \E d \in 1..10 : Digits[d] = c
RECURSIVE end_of_digits(_, _)
end_of_digits(s, i) ==
    IF is_digit(char(s, i)) THEN end_of_digits(s, i + 1) ELSE i

\* An integer: an optional sign, then 0 or a run of digits that does not
\* start with 0.
end_of_int(s, i) ==
    IF char(s, i) = "0" THEN i + 1 ELSE end_of_digits(s, i)
scan_int(s, i, first, end) ==
    IF end = first THEN JSONDecodeError
    ELSE IF char(s, end) \in {".", "e", "E"} THEN JSONDecodeError
    ELSE scanned(int(IF first = i THEN digits(SubSeq(s, first, end - 1))
                     ELSE -digits(SubSeq(s, first, end - 1))), end)
scan_string(s, i, close) ==
    IF close = 0 THEN JSONDecodeError
    ELSE scanned(str(SubSeq(s, i + 1, close - 1)), close + 1)

\* A key opens at i: the index of its closing quote, of the colon after it
\* and of the value after the colon; has_key says that they are there.
key_close(s, i) == find_from(s, "\"", i + 1)
colon_of(s, i) == skip(s, key_close(s, i) + 1)
value_of(s, i) == skip(s, colon_of(s, i) + 1)
has_key(s, i) ==
    char(s, i) = "\"" /\ key_close(s, i) # 0 /\ char(s, colon_of(s, i)) = ":"
key_at(s, i) == SubSeq(s, i + 1, key_close(s, i) - 1)

\* The index after the blanks after a scanned value, and after the comma
\* there.
past(s, v) == skip(s, v.end)
past_comma(s, v) == skip(s, past(s, v) + 1)

\* scan_once scans the value that starts at i. array_next has scanned the
\* value v of an array with the values before it, object_next the value v
\* of the key of an object with the pairs before it: ']' or '}' closes, a
\* comma brings the next value or the next key; only an array or object
\* without anything in it closes at once. A key that comes twice keeps its
\* place and takes the later value.
RECURSIVE scan_once(_, _), array_next(_, _, _), object_next(_, _, _, _)
scan_once(s, i) ==
    CASE char(s, i) = "{" /\ char(s, skip(s, i + 1)) = "}" ->
             scanned(dict(<<>>), skip(s, i + 1) + 1)
      [] char(s, i) = "{" /\ has_key(s, skip(s, i + 1)) ->
             object_next(s, key_at(s, skip(s, i + 1)),
                         scan_once(s, value_of(s, skip(s, i + 1))),
                         dict(<<>>))
      [] char(s, i) = "[" /\ char(s, skip(s, i + 1)) = "]" ->
             scanned(list(<<>>), skip(s, i + 1) + 1)
      [] char(s, i) = "[" ->
             array_next(s, scan_once(s, skip(s, i + 1)), <<>>)
      [] char(s, i) = "\"" -> scan_string(s, i, find_from(s, "\"", i + 1))
      [] char(s, i) = "-" -> scan_int(s, i, i + 1, end_of_int(s, i + 1))
      [] is_digit(char(s, i)) -> scan_int(s, i, i, end_of_int(s, i))
      [] i + 3 <= Len(s) /\ SubSeq(s, i, i + 3) = "null" ->
             scanned(null, i + 4)
      [] OTHER -> JSONDecodeError
array_next(s, v, values) ==
    CASE v = JSONDecodeError -> v
      [] char(s, past(s, v)) = "," ->
             array_next(s, scan_once(s, past_comma(s, v)),
                        Append(values, item("", v.value)))
      [] char(s, past(s, v)) = "]" ->
             scanned(list(Append(values, item("", v.value))),
                     past(s, v) + 1)
      [] OTHER -> JSONDecodeError
object_next(s, key, v, pairs) ==
    CASE v = JSONDecodeError -> v
      [] char(s, past(s, v)) = "," /\ has_key(s, past_comma(s, v)) ->
             object_next(s, key_at(s, past_comma(s, v)),
                         scan_once(s, value_of(s, past_comma(s, v))),
                         setitem(pairs, key, v.value))
      [] char(s, past(s, v)) = "}" ->
             scanned(setitem(pairs, key, v.value), past(s, v) + 1)
      [] OTHER -> JSONDecodeError

\* json.loads(s): the one value of the text, blanks around it; anything
\* after it is extra data.
loaded(s, v) ==
    IF v = JSONDecodeError \/ skip(s, v.end) # Len(s) + 1
    THEN raise("JSONDecodeError")
    ELSE v.value
loads(s) == loaded(s, scan_once(s, skip(s, 1)))

\* `data` after a try that leaves it None when loads raises.
caught(v) == IF raised(v) THEN null ELSE v
\* The next strategy runs `if data is None`.
if_none(data, next) == IF data = null THEN next ELSE data

\* Strategy 2: the text after the first known prefix that it starts with
\* and that leaves a text which decodes.
Prefixes == <<"for (;;);", "while(1);", "while(true);">>
startswith(s, prefix) ==
    Len(s) >= Len(prefix) /\ SubSeq(s, 1, Len(prefix)) = prefix
RECURSIVE without_prefix(_, _)
without_prefix(response_text, i) ==
    IF i > Len(Prefixes) THEN null
    ELSE IF startswith(response_text, Prefixes[i])
            /\ ~raised(loads(SubSeq(response_text, Len(Prefixes[i]) + 1,
                                    Len(response_text))))
    THEN loads(SubSeq(response_text, Len(Prefixes[i]) + 1,
                      Len(response_text)))
    ELSE without_prefix(response_text, i + 1)

\* Strategy 3: the text from its first '{' on, or else from its first '['
\* on, whichever decodes first.
StartChars == <<"{", "[">>
RECURSIVE from_start(_, _)
from_start(response_text, i) ==
    IF i > Len(StartChars) THEN null
    ELSE IF find(response_text, StartChars[i]) # 0
            /\ ~raised(loads(SubSeq(response_text,
                                    find(response_text, StartChars[i]),
                                    Len(response_text))))
    THEN loads(SubSeq(response_text, find(response_text, StartChars[i]),
                      Len(response_text)))
    ELSE from_start(response_text, i + 1)

\* Strategy 1 alone.
data_direct(response_text) == caught(loads(response_text))

\* The data of a response after the three strategies; None when all fail.
data_of(response_text) ==
    if_none(if_none(caught(loads(response_text)),
                    without_prefix(response_text, 1)),
            from_start(response_text, 1))

\* The legacy scraper decodes the chunk as it is or from a start character
\* on, and skips it when neither decodes.
legacy_data_of(chunk) ==
    IF raised(loads(chunk)) THEN from_start(chunk, 1) ELSE loads(chunk)

\* The result nodes of the data: the primary path, or else the secondary.
edges_of(data) ==
    or_else(safe_get(data, keys(<<"data", "serpResponse", "results",
                                  "edges">>)),
            safe_get(data, keys(<<"data", "results", "edges">>)))
legacy_edges_of(data) ==
    safe_get(data, keys(<<"data", "serpResponse", "results", "edges">>))

\* The posts of result nodes that are truthy: len(edges) in the log line
\* raises for a number; the keys of a dict and the characters of a str are
\* nodes without a story.
results_of(edges, keyword, t) ==
    IF edges.type = "int" THEN raise("TypeError")
    ELSE IF edges.type = "list"
    THEN list(extract_posts(edges.items, keyword, t))
    ELSE list(<<>>)

\* The debug line of a chunk without result nodes:
\* list(data.get("data", {}).keys()) when data is a dict with the key 'data'.
available_keys(data) ==
    IF data.type = "dict"
       /\ (\E i \in 1..Len(data.items) : data.items[i].key = "data")
       /\ get(data, str("data")).type # "dict"
    THEN raise("AttributeError")
    ELSE list(<<>>)

\* The posts of one response: none when no strategy decodes it.
posts_of(data, edges, keyword, t) ==
    IF data = null THEN list(<<>>)
    ELSE IF ~is_true(edges) THEN available_keys(data)
    ELSE results_of(edges, keyword, t)

\* The posts of one chunk of the legacy scraper.
legacy_chunk_posts(data, edges, keyword, t) ==
    IF data = null \/ ~is_true(edges) THEN list(<<>>)
    ELSE results_of(edges, keyword, t)

\* posts.append over the chunks in their order; an exception ends the loop.
extended(found, more) ==
    IF raised(found) THEN found
    ELSE IF raised(more) THEN more
    ELSE list(found.items \o more.items)

RECURSIVE parse_responses_of(_, _, _, _)
parse_responses_of(found, responses, keyword, t) ==
    IF responses = <<>> \/ raised(found) THEN found
    ELSE parse_responses_of(
             extended(found,
                      posts_of(data_of(Head(responses)),
                               edges_of(data_of(Head(responses))),
                               keyword, t)),
             Tail(responses), keyword, t)

\* The chunk loop of the legacy scraper; its extractor finds in the stories
\* used here what extract_post_from_node finds.
RECURSIVE legacy_posts_of(_, _, _, _)
legacy_posts_of(found, chunks, keyword, t) ==
    IF chunks = <<>> \/ raised(found) THEN found
    ELSE legacy_posts_of(
             extended(found,
                      legacy_chunk_posts(
                          legacy_data_of(Head(chunks)),
                          legacy_edges_of(legacy_data_of(Head(chunks))),
                          keyword, t)),
             Tail(chunks), keyword, t)

\* ---------------------------------------------------- the scraper: inputs

\* The texts of result nodes and of documents with the nodes under the
\* primary or the secondary path.
story_text(id, text) ==
    "{\"id\":" \o id \o ",\"message\":{\"text\":\"" \o text \o "\"},"
    \o "\"comet_sections\":{\"content\":{\"story\":{\"actors\":"
    \o "[{\"id\":\"11\",\"name\":\"An\"}]}}}}"
node_text(story) ==
    "{\"rendering_strategy\":{\"view_model\":{\"click_model\":{\"story\":"
    \o story \o "}}}}"
primary(edges) ==
    "{\"data\":{\"serpResponse\":{\"results\":{\"edges\":" \o edges \o "}}}}"
secondary(edges) == "{\"data\":{\"results\":{\"edges\":" \o edges \o "}}}"
node_a == node_text(story_text("\"101\"", "tivi"))
node_b == node_text(story_text("\"102\"", "quat"))

\* Valid JSON documents: with posts, without a result path, with result
\* nodes that are no list, scalars.
Documents ==
    {primary("[" \o node_a \o "]"), primary("[" \o node_a \o "," \o node_b \o "]"),
     secondary("[" \o node_b \o "]"), primary("[" \o node_text("null") \o "]"),
     primary("[]"), primary("5"), primary("\"ab\""), primary("{\"a\":1}"),
     "[" \o primary("[" \o node_a \o "]") \o "]",
     "{\"data\":{}}", "{ \"data\" : null }", "{\"data\":[],\"errors\":7}",
     "{\"errors\":7}", "null", "[]", "-7", "\"x\""}

\* Texts that no strategy decodes, and texts that only the third decodes.
Undecodable ==
    {"", "garbage", "for (;;);", "while(1);{", "{\"data\":",
     primary("[" \o node_a \o "]") \o "x", "for (;;);garbage"}
Embedded ==
    {"xx" \o primary("[" \o node_a \o "]"), "for(;;);" \o secondary("[" \o node_b \o "]")}
Prefixed == {Prefixes[i] \o d : i \in 1..Len(Prefixes), d \in Documents}

\* Captures of one response, and captures of up to MaxResponses responses
\* with bad chunks at every position.
Mixed ==
    {primary("[" \o node_a \o "]"), secondary("[" \o node_b \o "]"),
     "while(1);" \o primary("[" \o node_b \o "]"),
     "garbage", "{\"data\":{}}", "{ \"data\" : null }", primary("5")}
Captures ==
    {<<text>> : text \in Documents \cup Prefixed \cup Undecodable \cup Embedded}
    \cup sequences(Mixed, MaxResponses)

\* ------------------------------------------------ the parser: specification

\* The interpreter starts with a PYTHONHASHSEED of its own.
HashSeeds == 0..MaxHashSeed

parser_frame == <<program, posts, metrics_snapshot, collection_main,
                  collection_history, master, history, unique_index, now,
                  next_oid, budget, sightings, faults, runs>>

start_process ==
    /\ hashseed' \in HashSeeds
    /\ UNCHANGED <<parser_frame, call>>

call_safe_get ==
    /\ runs[1].op = "safe_get"
    /\ call' = [runs[1] EXCEPT
                   !.result = safe_get(runs[1].obj, runs[1].paths)]
    /\ UNCHANGED <<parser_frame, hashseed>>

call_parse_count ==
    /\ runs[1].op = "parse_count"
    /\ call' = [runs[1] EXCEPT !.result = parse_count(runs[1].count_str)]
    /\ UNCHANGED <<parser_frame, hashseed>>

call_extract_author_info ==
    /\ runs[1].op = "extract_author_info"
    /\ call' = [runs[1] EXCEPT !.result = extract_author_info(runs[1].story)]
    /\ UNCHANGED <<parser_frame, hashseed>>

call_extract_post_from_node ==
    /\ runs[1].op = "extract_post_from_node"
    /\ call' = [runs[1] EXCEPT
                   !.result = extract_post_from_node(runs[1].node,
                                                     runs[1].keyword, now)]
    /\ UNCHANGED <<parser_frame, hashseed>>

parse_responses ==
    /\ runs[1].op = "_parse_responses"
    /\ call' = [runs[1] EXCEPT
                   !.result = list(extract_posts(runs[1].edges,
                                                 runs[1].keyword, now))]
    /\ UNCHANGED <<parser_frame, hashseed>>

\* Texts and search keywords for the two classifiers.
ClassifyTexts ==
    {"may giat tot", "hello world", "tủ lạnh mini xe hơi",
     "tủ lạnh mini xe hơi, priority", "tủ lạnh tốt", "Smart TV", "quat"}
ClassifyKeywords == {"máy giặt", "", "quạt", "tivi", "Fridge"}

\* TLC keeps the identity of a string held in a state but not its letters
\* outside ASCII; an argument is therefore read as the string of its pool
\* that it is equal to.
drawn(pool, s) == CHOOSE t \in pool : t = s

call_classify_category ==
    /\ runs[1].op = "classify_category"
    /\ call' = [runs[1] EXCEPT
                   !.result = classify_category(
                                  drawn(ClassifyTexts, runs[1].text),
                                  drawn(ClassifyKeywords, runs[1].keyword))]
    /\ UNCHANGED <<parser_frame, hashseed>>

call_classify_post_category ==
    /\ runs[1].op = "classify_post_category"
    /\ call' = [runs[1] EXCEPT
                   !.result = classify_post_category(
                                  drawn(ClassifyTexts, runs[1].text),
                                  drawn(ClassifyKeywords, runs[1].keyword))]
    /\ UNCHANGED <<parser_frame, hashseed>>

\* The tail of scrape_keyword: _parse_responses over the responses that the
\* page has sent.
scrape_keyword ==
    /\ runs[1].op = "scrape_keyword"
    /\ call' = [runs[1] EXCEPT
                   !.result = parse_responses_of(list(<<>>),
                                                 runs[1].responses,
                                                 runs[1].keyword, now)]
    /\ UNCHANGED <<parser_frame, hashseed>>

\* The legacy scraper over the chunks of its raw log, called with
\* save_to_db=False.
scrape_search_keyword ==
    /\ runs[1].op = "scrape_search_keyword"
    /\ call' = [runs[1] EXCEPT
                   !.result = legacy_posts_of(list(<<>>), runs[1].responses,
                                              runs[1].keyword, now)]
    /\ UNCHANGED <<parser_frame, hashseed>>

\* One process about to make one call of a parser function or of a
\* classifier on an empty database, the call and its arguments in runs[1], no result yet.
InitParser ==
    /\ program = "parser"
    /\ posts = {}
    /\ metrics_snapshot = {}
    /\ collection_main = {}
    /\ collection_history = {}
    /\ master = {}
    /\ history = {}
    /\ unique_index = FALSE
    /\ now = StartTime
    /\ next_oid = 1
    /\ hashseed \in HashSeeds
    /\ call = NoCall
    /\ sightings = [id \in NativeIds |-> [calls |-> 0, entities |-> 0]]
    /\ faults = 0
    /\ budget = 0
    /\ \/ runs \in {<<[op |-> "safe_get", obj |-> obj, paths |-> paths,
                       result |-> null]>> :
                         obj \in Objects, paths \in Paths}
       \/ runs \in {<<[op |-> "parse_count", count_str |-> count_str,
                       result |-> null]>> : count_str \in Counts}
       \/ runs \in {<<[op |-> "extract_author_info", story |-> story,
                       result |-> null]>> : story \in Stories}
       \/ runs \in {<<[op |-> "extract_post_from_node", node |-> node,
                       keyword |-> "tivi", result |-> null]>> :
                         node \in AbsentNodes \cup StoryNodes
                                  \cup CountNodes}
       \/ runs \in {<<[op |-> "_parse_responses", edges |-> edges,
                       keyword |-> "tivi", result |-> null]>> :
                         edges \in Chunks}
       \/ runs \in {<<[op |-> op, responses |-> responses,
                       keyword |-> "tivi", result |-> null]>> :
                         op \in {"scrape_keyword", "scrape_search_keyword"},
                         responses \in Captures}
       \/ runs \in {<<[op |-> op, text |-> text, keyword |-> keyword,
                       result |-> None]>> :
                         op \in {"classify_category",
                                 "classify_post_category"},
                         text \in ClassifyTexts,
                         keyword \in ClassifyKeywords}

NextParser ==
    \/ start_process
    \/ call_safe_get
    \/ call_parse_count
    \/ call_extract_author_info
    \/ call_extract_post_from_node
    \/ parse_responses
    \/ call_classify_category
    \/ call_classify_post_category
    \/ scrape_keyword
    \/ scrape_search_keyword

SpecParser == InitParser /\ [][NextParser]_vars

\* ---------------------------------------------------- youtube: the scraper

\* max_pages = (max_results // 50) + 1, and maxResults = min(50, ...).
PageSize == 50

\* A run of run_youtube_scraper: the api keys and keywords it is given, the
\* scraper it creates (current_key_index), the position in the keyword
\* loop (idx, keyword) and the locals of the search_videos call under way.
\* rotations counts the _rotate_key calls of that search_videos call.
ApiKeys == <<"key1", "key2", "key3">>
KeywordLists == UNION {[1..n -> ScraperKeywords] : n \in 0..MaxKeywords}
VideoTargets == {1, PageSize}

new_scraper_run(api_keys, keywords, max_videos_per_keyword) ==
    [op |-> "run_youtube_scraper", pc |-> "start",
     api_keys |-> api_keys, keywords |-> keywords,
     max_results |-> max_videos_per_keyword,
     current_key_index |-> 0, idx |-> 0, keyword |-> "",
     videos |-> <<>>, seen_ids |-> {}, page_count |-> 0, rotations |-> 0,
     total_videos |-> 0,
     keyword_stats |-> [query \in ScraperQueries |-> None],
     outcome |-> "running"]

max_pages_of(max_results) == (max_results \div PageSize) + 1

\* _rotate_key that stays on the key it has.
rotate_same_key(r) == [r EXCEPT !.rotations = @ + 1]

\* _rotate_key: the index moves on, and past the last key the call raises
\* 'All API keys exhausted'.
rotate_key(r) ==
    [r EXCEPT !.current_key_index = @ + 1, !.rotations = @ + 1]

exhausted(r) == r.current_key_index >= Len(r.api_keys)

\* The items of a search response search_videos keeps: not seen before, in
\* this call or on this page, and not of an excluded channel.
RECURSIVE kept_items(_, _)
kept_items(items, seen_ids) ==
    IF items = <<>> THEN <<>>
    ELSE IF Head(items).id \in seen_ids
            \/ is_channel_excluded(Head(items).channelTitle)
    THEN kept_items(Tail(items), seen_ids)
    ELSE <<Head(items)>>
             \o kept_items(Tail(items), seen_ids \cup {Head(items).id})

\* _get_video_details when the videos request answers: the video_data of
\* the items not of an excluded channel.
RECURSIVE video_details(_)
video_details(items) ==
    IF items = <<>> THEN <<>>
    ELSE (IF is_channel_excluded(Head(items).channelTitle) THEN <<>>
          ELSE <<video_data(Head(items))>>) \o video_details(Tail(items))

\* bulk_write(master_operations, ordered=False) of insert_videos by one
\* writer on the videos collection.
RECURSIVE video_bulk_write(_, _, _)
video_bulk_write(acc, operations, i) ==
    IF i > Len(operations) THEN acc
    ELSE LET op == operations[i]
             matches == {d \in acc.coll : d.video_id = op.filter}
         IN  IF matches # {}
             THEN LET d == CHOOSE x \in matches : \A y \in matches : x.oid <= y.oid
                      e == video_updated_doc(d, op)
                  IN  video_bulk_write(
                          [acc EXCEPT !.coll = (@ \ {d}) \cup {e},
                                      !.modified_count =
                                          IF e # d THEN @ + 1 ELSE @],
                          operations, i + 1)
             ELSE video_bulk_write(
                      [acc EXCEPT !.coll = @ \cup {video_upserted_doc(op, acc.oid)},
                                  !.oid = @ + 1,
                                  !.upserted_count = @ + 1],
                      operations, i + 1)

\* insert_videos from entry to return, the store accepting every write.
insert_videos_run(videos, query) ==
    LET prepared == prepare_videos(videos, query, strftime_day(now))
        written == video_bulk_write([coll |-> master, oid |-> next_oid,
                                     upserted_count |-> 0,
                                     modified_count |-> 0],
                                    prepared.master_operations, 1)
        snapshots == insert_many([coll |-> history, oid |-> written.oid,
                                  inserted |-> 0, writeErrors |-> 0],
                                 prepared.history_documents, 1, {})
    IN  [master |-> written.coll, history |-> snapshots.coll,
         oid |-> snapshots.oid,
         result |-> [videos_inserted |-> written.upserted_count,
                     videos_updated |-> written.modified_count,
                     history_inserted |-> snapshots.inserted,
                     errors |-> 0]]

scraper_frame == <<program, posts, metrics_snapshot, collection_main,
                   collection_history, hashseed, budget, sightings, faults>>
scraper_stores == <<master, history, next_oid, now>>

\* run_youtube_scraper up to the keyword loop: without api keys or without
\* keywords it returns; so it does when create_indexes raises, which it
\* does over duplicate video ids. The scraper starts on the first key.
begin_run ==
    /\ runs[1].pc = "start"
    /\ LET r == runs[1]
           built == \A d \in master, e \in master :
                        d.video_id = e.video_id => d = e
       IN  IF r.api_keys = <<>> \/ r.keywords = <<>>
           THEN /\ runs' = <<[r EXCEPT !.pc = "done", !.outcome = "returned"]>>
                /\ UNCHANGED unique_index
           ELSE /\ unique_index' = (unique_index \/ built)
                /\ runs' = <<IF built THEN [r EXCEPT !.pc = "keywords"]
                             ELSE [r EXCEPT !.pc = "done",
                                            !.outcome = "returned"]>>
    /\ UNCHANGED <<scraper_frame, scraper_stores, call>>

\* The head of the keyword loop with a keyword left: a blank keyword is
\* passed over, any other starts search_videos.
next_keyword ==
    /\ runs[1].pc = "keywords"
    /\ runs[1].idx < Len(runs[1].keywords)
    /\ LET r == runs[1]
           keyword == strip(r.keywords[r.idx + 1])
       IN  runs' = <<IF keyword = ""
                     THEN [r EXCEPT !.idx = @ + 1, !.keyword = keyword]
                     ELSE [r EXCEPT !.idx = @ + 1, !.keyword = keyword,
                                    !.pc = "search_videos",
                                    !.videos = <<>>, !.seen_ids = {},
                                    !.page_count = 0, !.rotations = 0]>>
    /\ UNCHANGED <<scraper_frame, scraper_stores, unique_index, call>>

\* search_videos has ended: what it was called with and how it ended.
search_videos_call(r, result) ==
    [op |-> "search_videos", api_keys |-> r.api_keys,
     max_results |-> r.max_results, query |-> r.keyword,
     videos |-> r.videos, page_count |-> r.page_count,
     rotations |-> r.rotations, current_key_index |-> r.current_key_index,
     result |-> result]

in_loop(r) ==
    /\ r.pc = "search_videos"
    /\ Len(r.videos) < r.max_results
    /\ r.page_count < max_pages_of(r.max_results)

\* One pass of the while loop in which the search request answers with a
\* page of items, with or without a nextPageToken. The videos request for
\* the items kept answers with their details, or with a 403, or fails
\* otherwise; its 403 rotates the key, and past the last key the exception
\* of _rotate_key leaves _get_video_details and ends the loop.
search_page ==
    /\ in_loop(runs[1])
    /\ \E n \in 0..MaxPageItems :
       \E items \in [1..n -> ApiItems], nextPageToken \in BOOLEAN,
          details \in {"items", "403", "error"} :
          LET r == runs[1]
              video_ids == kept_items(items, r.seen_ids)
              searched == [r EXCEPT !.page_count = @ + 1,
                                    !.seen_ids = @ \cup {video_ids[i].id :
                                                     i \in 1..Len(video_ids)}]
              rotated == rotate_key(searched)
              fetched ==
                  IF video_ids = <<>> THEN searched
                  ELSE IF details = "items"
                  THEN [searched EXCEPT
                            !.videos = @ \o video_details(video_ids)]
                  ELSE IF details = "403" THEN rotated
                  ELSE searched
              break == \/ /\ video_ids # <<>>
                          /\ details = "403"
                          /\ exhausted(rotated)
                       \/ ~nextPageToken
              after == [fetched EXCEPT
                            !.pc = IF break THEN "returned" ELSE @]
          IN  /\ n <= Min(PageSize, r.max_results - Len(r.videos))
              /\ runs' = <<after>>
              /\ call' = IF break THEN search_videos_call(after, "returned")
                         ELSE call
    /\ UNCHANGED <<scraper_frame, scraper_stores, unique_index>>

\* One pass in which the search request answers 403: the key is rotated
\* and the request tried again; past the last key the exception of
\* _rotate_key leaves search_videos.
search_quota_exceeded ==
    /\ in_loop(runs[1])
    /\ LET rotated == rotate_key(runs[1])
           after == [rotated EXCEPT
                         !.pc = IF exhausted(rotated) THEN "raised" ELSE @]
       IN  /\ runs' = <<after>>
           /\ call' = IF exhausted(rotated)
                      THEN search_videos_call(after, "raised") ELSE call
    /\ UNCHANGED <<scraper_frame, scraper_stores, unique_index>>

\* One pass in which the search request fails otherwise: the loop ends.
search_error ==
    /\ in_loop(runs[1])
    /\ runs' = <<[runs[1] EXCEPT !.pc = "returned"]>>
    /\ call' = search_videos_call(runs'[1], "returned")
    /\ UNCHANGED <<scraper_frame, scraper_stores, unique_index>>

\* The loop condition fails: search_videos returns.
search_videos_return ==
    /\ runs[1].pc = "search_videos"
    /\ ~in_loop(runs[1])
    /\ runs' = <<[runs[1] EXCEPT !.pc = "returned"]>>
    /\ call' = search_videos_call(runs'[1], "returned")
    /\ UNCHANGED <<scraper_frame, scraper_stores, unique_index>>

\* The keyword loop after search_videos returned: the videos found are
\* saved with insert_videos and counted.
keyword_searched ==
    /\ runs[1].pc = "returned"
    /\ LET r == runs[1]
           saved == insert_videos_run(r.videos, r.keyword)
       IN  IF r.videos # <<>>
           THEN /\ master' = saved.master
                /\ history' = saved.history
                /\ next_oid' = saved.oid
                /\ now' = now + Tick
                /\ runs' = <<[r EXCEPT
                                 !.pc = "keywords",
                                 !.total_videos = @ + Len(r.videos),
                                 !.keyword_stats[r.keyword] = Len(r.videos)]>>
           ELSE /\ runs' = <<[r EXCEPT !.pc = "keywords",
                                       !.keyword_stats[r.keyword] = 0]>>
                /\ UNCHANGED scraper_stores
    /\ UNCHANGED <<scraper_frame, unique_index, call>>

\* The keyword loop after search_videos raised: the exception is logged,
\* the keyword counted with 0 and the loop goes on.
keyword_failed ==
    /\ runs[1].pc = "raised"
    /\ runs' = <<[runs[1] EXCEPT !.pc = "keywords",
                                 !.keyword_stats[runs[1].keyword] = 0]>>
    /\ UNCHANGED <<scraper_frame, scraper_stores, unique_index, call>>

\* After the last keyword: 'SCRAPING COMPLETED', the summary, the trending
\* videos (read only), 'Done!'; the function returns.
finish_run ==
    /\ runs[1].pc = "keywords"
    /\ runs[1].idx = Len(runs[1].keywords)
    /\ runs' = <<[runs[1] EXCEPT !.pc = "done",
                                 !.outcome = "SCRAPING COMPLETED"]>>
    /\ UNCHANGED <<scraper_frame, scraper_stores, unique_index, call>>

\* One run of run_youtube_scraper on an empty database, for every list of
\* at most MaxKeys api keys and MaxKeywords keywords, the api answering
\* every request in any of its ways.
InitScraper ==
    /\ program = "youtube"
    /\ posts = {}
    /\ metrics_snapshot = {}
    /\ collection_main = {}
    /\ collection_history = {}
    /\ master = {}
    /\ history = {}
    /\ unique_index = FALSE
    /\ now = StartTime
    /\ next_oid = 1
    /\ hashseed = 0
    /\ call = NoCall
    /\ sightings = [id \in NativeIds |-> [calls |-> 0, entities |-> 0]]
    /\ faults = 0
    /\ budget = 0
    /\ \E k \in 0..MaxKeys, keywords \in KeywordLists,
          max_videos_per_keyword \in VideoTargets :
          runs = <<new_scraper_run(SubSeq(ApiKeys, 1, k), keywords,
                                   max_videos_per_keyword)>>

NextScraper ==
    \/ begin_run
    \/ next_keyword
    \/ search_page
    \/ search_quota_exceeded
    \/ search_error
    \/ search_videos_return
    \/ keyword_searched
    \/ keyword_failed
    \/ finish_run

SpecScraper == InitScraper /\ [][NextScraper]_vars

\* The same run with a search_videos call that is not suspended: execute()
\* answers or raises, sleep returns, so the pass of the while loop that can
\* be taken is taken in the end.
search_videos_step ==
    \/ search_page
    \/ search_quota_exceeded
    \/ search_error
    \/ search_videos_return

SpecSearch ==
    InitScraper /\ [][NextScraper]_vars /\ WF_vars(search_videos_step)

\* ------------------------------------------------------------ properties

C2_ImmutablePreserved ==
    [][\A d \in posts : \A e \in posts' :
          e.oid = d.oid =>
            /\ e.content = d.content
            /\ e.author_id = d.author_id
            /\ e.author_name = d.author_name
            /\ e.media_urls = d.media_urls
            /\ e.created_at = d.created_at
            /\ e.category = d.category
            /\ e.platform = d.platform
            /\ e.platform_data = d.platform_data
            /\ e.post_id = d.post_id
            /\ (/\ call' # call
                /\ call'.op = "insert_posts"
                /\ \E i \in 1..Len(call'.scraped_posts) :
                      /\ truthy(call'.scraped_posts[i].id)
                      /\ d.post_id = "facebook_" \o call'.scraped_posts[i].id)
               => /\ e.scraped_at > call'.at
                  /\ e.scraped_at <= now'
                  /\ e.scraped_at > d.scraped_at]_vars

C2_Witness ==
    /\ call.op = "insert_posts"
    /\ \E i \in 1..Len(call.scraped_posts) : \E d \in posts :
          /\ truthy(call.scraped_posts[i].id)
          /\ d.post_id = "facebook_" \o call.scraped_posts[i].id
          /\ d.content # call.scraped_posts[i].text
          /\ d.author_name # call.scraped_posts[i].owner
          /\ d.scraped_at > call.at

\* C3: when two concurrent runs of insert_posts / insert_posts_with_metrics
\* (or of youtube's insert_videos) ingest the same id, unseen before, and
\* both have returned, the master collection holds exactly one document of
\* that id, its $setOnInsert fields are those of one operation of one run,
\* no run has counted an error, and the id was inserted once.
C3_OneMasterLoserUpdates ==
    (/\ program \in {"facebook", "legacy", "youtube"}
     /\ Len(runs) = 2
     /\ runs[1].pc = "done"
     /\ runs[2].pc = "done"
     /\ \E i \in 1..Len(runs[1].ops), j \in 1..Len(runs[2].ops) :
           runs[1].ops[i].filter = runs[2].ops[j].filter)
    => LET coll == IF program = "youtube" THEN master ELSE posts
           key_of(d) == IF program = "youtube" THEN d.video_id ELSE d.post_id
           both == {runs[1].ops[i].filter : i \in 1..Len(runs[1].ops)}
                      \cap {runs[2].ops[j].filter : j \in 1..Len(runs[2].ops)}
           all == {runs[1].ops[i].filter : i \in 1..Len(runs[1].ops)}
                      \cup {runs[2].ops[j].filter : j \in 1..Len(runs[2].ops)}
       IN  /\ \A k \in both :
                 /\ Cardinality({d \in coll : key_of(d) = k}) = 1
                 /\ \A d \in {x \in coll : key_of(x) = k} :
                       \E r \in {1, 2} : \E i \in 1..Len(runs[r].ops) :
                          /\ runs[r].ops[i].filter = k
                          /\ \A f \in DOMAIN runs[r].ops[i].setOnInsert :
                                d[f] = runs[r].ops[i].setOnInsert[f]
           /\ runs[1].result.errors = 0
           /\ runs[2].result.errors = 0
           /\ runs[1].result.inserted + runs[2].result.inserted
                  = Cardinality(all)

\* C4: when two concurrent insert_products_batch or insert_videos_batch
\* calls contain the same id, unseen before, and both have come to their
\* end, the master collection holds exactly one document of that id, one
\* call has inserted it, and no call has ended in an uncaught store error.
C4_OneMasterNoAbort ==
    (/\ program \in {"shopee", "tiktok"}
     /\ Len(runs) = 2
     /\ runs[1].pc \in {"done", "raised"}
     /\ runs[2].pc \in {"done", "raised"}
     /\ \E i \in 1..Len(runs[1].ops), j \in 1..Len(runs[2].ops) :
           runs[1].ops[i][batch_key] = runs[2].ops[j][batch_key])
    => LET both == {runs[1].ops[i][batch_key] : i \in 1..Len(runs[1].ops)}
                      \cap {runs[2].ops[j][batch_key] : j \in 1..Len(runs[2].ops)}
           all == {runs[1].ops[i][batch_key] : i \in 1..Len(runs[1].ops)}
                      \cup {runs[2].ops[j][batch_key] : j \in 1..Len(runs[2].ops)}
       IN  /\ runs[1].pc = "done"
           /\ runs[2].pc = "done"
           /\ \A k \in both :
                 Cardinality({d \in collection_main : d[batch_key] = k}) = 1
           /\ runs[1].inserted + runs[2].inserted = Cardinality(all)

\* C5: every entity with a native id in the batch of insert_posts /
\* insert_posts_with_metrics or of shopee's insert_products_batch adds
\* exactly one document to the snapshot collection, carrying the metrics the
\* entity has in this batch, whether or not its master existed and whether
\* or not the metrics are those of the sighting before.
C5_OneSnapshotPerEntity ==
    [][/\ (call' # call /\ call'.op = "insert_posts") =>
            LET added == metrics_snapshot' \ metrics_snapshot
                E == call'.scraped_posts
                with_id == {i \in 1..Len(E) : truthy(E[i].id)}
                same(i, j) == /\ E[i].id = E[j].id
                              /\ E[i].reactions = E[j].reactions
                              /\ E[i].comment_count = E[j].comment_count
                              /\ E[i].share_count = E[j].share_count
                              /\ E[i].view_count = E[j].view_count
            IN  /\ Cardinality(added) = Cardinality(with_id)
                /\ \A i \in with_id :
                      Cardinality({m \in added :
                                     /\ m.post_id = "facebook_" \o E[i].id
                                     /\ m.likes = count_of(E[i].reactions, "total")
                                     /\ m.comments = E[i].comment_count
                                     /\ m.shares = E[i].share_count
                                     /\ m.views = E[i].view_count
                                     /\ m.snapshot_time > call'.at})
                          = Cardinality({j \in with_id : same(i, j)})
       /\ (call' # call /\ call'.op = "batch" /\ program = "shopee") =>
            LET added == collection_history' \ collection_history
                E == call'.items
                with_id == {i \in 1..Len(E) : truthy(E[i].itemid)}
            IN  /\ Cardinality(added) = Cardinality(with_id)
                /\ \A i \in with_id :
                      Cardinality({m \in added :
                                     /\ m.itemid = E[i].itemid
                                     /\ m.price = E[i].price
                                     /\ m.sold_total = E[i].sold_total
                                     /\ m.crawl_date = call'.now_vn})
                          = Cardinality({j \in with_id : E[j] = E[i]})]_vars

C5_Witness ==
    /\ call.op = "insert_posts"
    /\ call.result.posts_updated >= 1
    /\ \E m \in metrics_snapshot, n \in metrics_snapshot :
          /\ m.post_id = n.post_id
          /\ m.snapshot_time < call.at
          /\ n.snapshot_time > call.at
          /\ m.likes = n.likes
          /\ m.comments = n.comments
          /\ m.shares = n.shares

\* C6: on facebook's insert_posts, shopee's insert_products_batch and
\* tiktok's insert_videos_batch no stored master or snapshot row has a
\* missing, None or empty native id.
C6_NoEmptyNativeId ==
    /\ \A d \in posts : truthy(d.platform_data.native_post_id)
    /\ \A m \in metrics_snapshot :
          m.post_id \notin {"facebook_" \o format(x) : x \in MissingIds}
    /\ program = "shopee" =>
          \A d \in collection_main \cup collection_history : truthy(d.itemid)
    /\ program = "tiktok" =>
          \A d \in collection_main \cup collection_history : truthy(d.id)

\* C7: the errors value insert_posts / insert_posts_with_metrics returns is
\* the number of entities of the batch without native id (1 for a batch of
\* 3 with one such entity), the store accepting every write.
C7_ErrorsCountMissingIds ==
    call.op = "insert_posts" =>
        call.result.errors =
            Cardinality({i \in 1..Len(call.scraped_posts) :
                           ~truthy(call.scraped_posts[i].id)})

\* C8: in one ingest call a failure of the master write does not keep the
\* snapshot rows of the call from being written and a failure of the
\* snapshot write does not keep the master documents of the call from
\* being written, for insert_posts and for the shopee / tiktok batches.
C8_WritesIndependent ==
    /\ (call.op = "insert_posts" /\ call.mrej # {}) =>
          \A i \in 1..Len(call.scraped_posts) :
              truthy(call.scraped_posts[i].id) =>
                 \E m \in metrics_snapshot :
                    /\ m.post_id = "facebook_" \o call.scraped_posts[i].id
                    /\ m.snapshot_time > call.at
    /\ (call.op = "insert_posts" /\ call.srej # {}) =>
          \A i \in 1..Len(call.scraped_posts) :
              truthy(call.scraped_posts[i].id) =>
                 \E d \in posts :
                    /\ d.post_id = "facebook_" \o call.scraped_posts[i].id
                    /\ d.scraped_at > call.at
    /\ (call.op = "batch" /\ program = "shopee" /\ call.hfail > 0) =>
          \A i \in 1..Len(call.items) :
              truthy(call.items[i].itemid) =>
                 \E d \in collection_main : d.itemid = call.items[i].itemid
    /\ (call.op = "batch" /\ program = "tiktok" /\ call.hfail > 0) =>
          \A i \in 1..Len(call.items) :
              \E d \in collection_main :
                  d.id = video_id_of(call.items[i].video)
    /\ (call.op = "batch" /\ program = "shopee" /\ call.mfail > 0) =>
          \A i \in 1..Len(call.items) :
              truthy(call.items[i].itemid) =>
                 \E h \in collection_history :
                    /\ h.itemid = call.items[i].itemid
                    /\ h.crawl_date = call.now_vn

\* C9: every row of get_trending_posts, the crawler's and core's, joins a
\* master with the snapshot of greatest snapshot_time among the snapshots
\* of the master's own post_id, and the masters returned are those of the
\* window whose own latest snapshot reaches min_engagement.
C9_TrendingFromOwnLatest ==
    program \in {"facebook", "legacy"} =>
        \A a \in TrendArguments :
            LET lists == IF program = "facebook"
                         THEN get_trending_posts_of(a[1], a[2], a[3])
                         ELSE core_get_trending_posts_of(a[1], a[2], a[3])
                own(d) == {m \in metrics_snapshot : m.post_id = d.post_id}
                expected ==
                    {d \in in_window(posts, a[1], a[2], now) :
                        \E m \in own(d) :
                            /\ \A n \in own(d) : n.snapshot_time <= m.snapshot_time
                            /\ m.likes + m.comments + m.shares >= a[3]}
            IN  \A l \in lists :
                    /\ \A k \in 1..Len(l) :
                          /\ l[k].latest_metrics.post_id = l[k].post.post_id
                          /\ \A n \in own(l[k].post) :
                                n.snapshot_time <= l[k].latest_metrics.snapshot_time
                    /\ {l[k].post : k \in 1..Len(l)} = expected

\* C10: no step of insert_posts, create_indexes, clean_null_post_ids,
\* clean_duplicate_posts, get_trending_posts or get_post_metrics_history
\* changes or deletes a document of metrics_snapshot: the collection only
\* grows.
C10_SnapshotsAppendOnly ==
    [][metrics_snapshot \subseteq metrics_snapshot']_vars

C10_Witness ==
    /\ call.op = "clean_duplicate_posts"
    /\ call.result > 0
    /\ LegacyMetrics \subseteq metrics_snapshot
    /\ Cardinality(metrics_snapshot) > Cardinality(LegacyMetrics)

\* C11: the session ids of a master accumulate: a step never loses a session
\* id the master carried, and after insert_posts / insert_posts_with_metrics
\* has ingested the master's entity under session id s2 the master carries
\* s2 next to the ids it carried before.
C11_SessionIdsAccumulate ==
    [][\A d \in posts : \A e \in posts' :
          e.oid = d.oid =>
             LET session_ids(x) == {x.crawl_session_id}
             IN  /\ session_ids(d) \subseteq session_ids(e)
                 /\ (/\ call' # call
                     /\ call'.op = "insert_posts"
                     /\ \E i \in 1..Len(call'.scraped_posts) :
                           /\ truthy(call'.scraped_posts[i].id)
                           /\ d.post_id = "facebook_" \o call'.scraped_posts[i].id)
                    => call'.session_id \in session_ids(e)]_vars

\* C12: matched_keywords of a master is the set of the keywords under which
\* insert_posts / insert_posts_with_metrics ingested its entity, each once:
\* a master newly inserted carries exactly the keyword of the call, a
\* master ingested again gains the keyword of the call if it is new, and
\* no other step changes the set.
C12_MatchedKeywordsAreTheKeywords ==
    [][LET elems(q) == {q[i] : i \in 1..Len(q)}
           ingests(post_id) ==
               /\ call' # call
               /\ call'.op = "insert_posts"
               /\ \E i \in 1..Len(call'.scraped_posts) :
                     /\ truthy(call'.scraped_posts[i].id)
                     /\ post_id = "facebook_" \o call'.scraped_posts[i].id
       IN  \A e \in posts' :
              /\ Cardinality(elems(e.matched_keywords)) = Len(e.matched_keywords)
              /\ IF \E d \in posts : d.oid = e.oid
                 THEN \A d \in posts :
                         d.oid = e.oid =>
                            elems(e.matched_keywords) =
                               elems(d.matched_keywords) \cup
                                  (IF ingests(d.post_id)
                                   THEN {call'.keyword} ELSE {})
                 ELSE elems(e.matched_keywords) = {call'.keyword}]_vars

C12_Witness ==
    \E id \in NativeIds : \E d \in posts :
        /\ d.post_id = "facebook_" \o id
        /\ sightings[id].calls = 3
        /\ Len(d.matched_keywords) = 2
        /\ \E i \in 1..2 : d.matched_keywords[i] = call.keyword

\* C13: every master insert_posts / insert_posts_with_metrics has written
\* in one call and every snapshot it has added carry the crawl_session_id
\* of that call, also when the clock has passed into another minute while
\* the batch was transformed.
C13_OneSessionIdPerCall ==
    call.op = "insert_posts" =>
        /\ \A d \in posts :
              d.scraped_at > call.at => d.crawl_session_id = call.session_id
        /\ \A m \in metrics_snapshot :
              m.snapshot_time > call.at => m.crawl_session_id = call.session_id

C13_Witness ==
    /\ call.op = "insert_posts"
    /\ \E m \in metrics_snapshot, n \in metrics_snapshot :
          /\ m.snapshot_time > call.at
          /\ n.snapshot_time > call.at
          /\ strftime_minute(m.snapshot_time) # strftime_minute(n.snapshot_time)
          /\ m.crawl_session_id = n.crawl_session_id
    /\ \E d \in posts :
          /\ d.scraped_at > call.at
          /\ strftime_minute(d.scraped_at) # call.session_id

\* C14: when create_indexes, the crawler's or core's, has returned without
\* raising, posts holds no document with a null or missing post_id and the
\* unique index on post_id is in place.
C14_CreateIndexesEstablishesUnique ==
    (call.op = "create_indexes" /\ call.result = "returned") =>
        /\ \A d \in posts : d.post_id # None
        /\ unique_index

\* C15: a run of clean_duplicate_posts leaves of every post_id that had
\* several documents in posts exactly one, a document it had with the
\* greatest scraped_at; it leaves the documents of the other post_ids as
\* they are, adds nothing, and returns the number of documents deleted.
C15_KeepsMostRecentDuplicate ==
    [][(call' # call /\ call'.op = "clean_duplicate_posts") =>
          LET dup == {d.post_id : d \in {x \in posts :
                         \E y \in posts : y # x /\ y.post_id = x.post_id}}
          IN  /\ \A k \in dup :
                    /\ Cardinality({e \in posts' : e.post_id = k}) = 1
                    /\ \A e \in posts' :
                          e.post_id = k =>
                             \A d \in posts :
                                d.post_id = k => d.scraped_at <= e.scraped_at
              /\ \A d \in posts : d.post_id \notin dup => d \in posts'
              /\ posts' \subseteq posts
              /\ call'.result = Cardinality(posts \ posts')]_vars

C15_Witness ==
    /\ call.op = "clean_duplicate_posts"
    /\ call.result = 1
    /\ \E d \in posts :
          /\ d.post_id = "facebook_101"
          /\ d.oid = 1
          /\ d.scraped_at > StartTime
    /\ \E d \in posts : d.post_id = None

\* C16: extract_post_from_node returns None, raising nothing, for a result
\* node without the path rendering_strategy.view_model.click_model.story
\* (a key missing, a null, an intermediate node that is no mapping), and
\* _parse_responses returns for a chunk the posts it returns for the chunk
\* without those nodes.
C16_AbsentStoryIsSkipped ==
    /\ (call.op = "extract_post_from_node" /\ call.node \in AbsentNodes)
          => call.result = null
    /\ call.op = "_parse_responses"
          => LET with_story(edge) == edge.value \notin AbsentNodes
             IN  call.result
                    = list(extract_posts(SelectSeq(call.edges, with_story),
                                         call.keyword, now))

C16_Witness ==
    /\ call.op = "_parse_responses"
    /\ Len(call.edges) = 2
    /\ call.edges[1].value \in AbsentNodes
    /\ Len(call.result.items) = 1
    /\ get(call.result.items[1].value, str("id")) = str("101")

\* C17: when comet_sections.content.story.actors is a list with a first
\* entry, extract_author_info returns the id and the name of that entry.
C17_FirstActorWins ==
    call.op = "extract_author_info" =>
        LET actors == safe_get(call.story, keys(<<"comet_sections", "content",
                                                  "story", "actors">>))
        IN  (actors.type = "list" /\ actors.items # <<>>)
               => call.result
                     = tuple(get(actors.items[1].value, str("id")),
                             get(actors.items[1].value, str("name")))

\* C18: two calls of extract_author_info on the same story, in whatever
\* processes, return the same author id and name.
C18_SyntheticIdIsStable ==
    [][(/\ call.op = "extract_author_info"
        /\ call'.op = "extract_author_info"
        /\ call'.story = call.story)
          => call'.result = call.result]_vars

\* C19: safe_get raises nothing and returns the node reached by walking the
\* path, where a step from None, a key on anything but a mapping, a key the
\* mapping does not have, an index on anything but a sequence and an index
\* outside the sequence (-len .. len-1, negative ones counting from the
\* end) all lead to None.
C19_SafeGetNeverRaises ==
    call.op = "safe_get" =>
        LET step(node, path) ==
                IF path.type = "str"
                THEN IF node.type = "dict"
                        /\ \E i \in 1..Len(node.items) :
                              node.items[i].key = path.text
                     THEN node.items[CHOOSE i \in 1..Len(node.items) :
                              node.items[i].key = path.text].value
                     ELSE null
                ELSE IF node.type = "list"
                        /\ path.number < Len(node.items)
                        /\ path.number >= -Len(node.items)
                     THEN node.items[(path.number % Len(node.items)) + 1].value
                     ELSE null
            walk[k \in 0..Len(call.paths)] ==
                IF k = 0 THEN call.obj ELSE step(walk[k - 1], call.paths[k])
        IN  /\ ~raised(call.result)
            /\ call.result = walk[Len(call.paths)]

C19_Witness ==
    /\ call.op = "safe_get"
    /\ call.obj.type = "list"
    /\ call.paths = <<int(-1), str("a")>>
    /\ call.result = int(7)

\* C20: parse_count raises nothing and returns an int, and returns 0 for a
\* str with a K or M marker whose remaining text is not a number.
C20_ParseCountNeverRaises ==
    call.op = "parse_count" =>
        LET s == strip(remove(upper(call.count_str.text), ","))
            marker == IF contains(s, "K") THEN "K" ELSE "M"
        IN  /\ call.result.type = "int"
            /\ (/\ call.count_str.type = "str"
                /\ contains(s, marker)
                /\ raised(int_of_float(remove(s, marker), 1)))
                  => call.result = int(0)

C22_FirstMatchingCategory ==
    call.op \in {"classify_category", "classify_post_category"} =>
        LET table == IF call.op = "classify_category" THEN FacebookCategories
                     ELSE CoreKeywords
            text == drawn(ClassifyTexts, call.text)
            keyword == drawn(ClassifyKeywords, call.keyword)
            hit(i) == \E j \in 1..Len(table[i].keywords) :
                         \/ contains(lower(keyword), table[i].keywords[j])
                         \/ contains(lower(text), table[i].keywords[j])
            hits == {i \in 1..Len(table) : hit(i)}
        IN  /\ hits = {} => call.result = "general"
            /\ hits # {}
                  => call.result
                        = table[CHOOSE i \in hits :
                                   \A j \in hits : i <= j].category
            /\ (call.text = "may giat tot" /\ call.keyword = "máy giặt")
                  => call.result = "washing_machine"
            /\ (call.text = "hello world" /\ call.keyword = "")
                  => call.result = "general"

\* C23: when the search keyword contains a keyword of some category, the
\* category returned is one whose keywords the search keyword contains;
\* otherwise it is the first category with a keyword in the text, or
\* 'general'.
C23_KeywordBeforeText ==
    call.op \in {"classify_category", "classify_post_category"} =>
        LET table == IF call.op = "classify_category" THEN FacebookCategories
                     ELSE CoreKeywords
            text == drawn(ClassifyTexts, call.text)
            keyword == drawn(ClassifyKeywords, call.keyword)
            by(s) == {i \in 1..Len(table) :
                         \E j \in 1..Len(table[i].keywords) :
                            contains(lower(s), table[i].keywords[j])}
        IN  /\ by(keyword) # {}
                  => \E i \in by(keyword) :
                        call.result = table[i].category
            /\ (by(keyword) = {} /\ by(text) # {})
                  => call.result
                        = table[CHOOSE i \in by(text) :
                                   \A j \in by(text) : i <= j].category
            /\ (by(keyword) = {} /\ by(text) = {})
                  => call.result = "general"

\* C24: classify_post_category does not return a category one of whose
\* negative keywords is contained in the text or in the search keyword.
C24_NegativeKeywordsExclude ==
    call.op = "classify_post_category" =>
        LET text == drawn(ClassifyTexts, call.text)
            keyword == drawn(ClassifyKeywords, call.keyword)
        IN
        \A i \in 1..Len(CoreKeywords) :
            (\E j \in 1..Len(CoreKeywords[i].negative_keywords) :
                \/ contains(lower(text),
                            CoreKeywords[i].negative_keywords[j])
                \/ contains(lower(keyword),
                            CoreKeywords[i].negative_keywords[j]))
               => call.result # CoreKeywords[i].category

\* C25: for a valid JSON document d and a known prefix p, _parse_responses
\* finds in the one response p + d the result nodes, and returns the posts
\* (or raises the exception), that it finds and returns for the response d.
C25_PrefixDecodesAlike ==
    call.op = "scrape_keyword" =>
        \A i \in 1..Len(Prefixes), d \in Documents :
            (~raised(loads(d)) /\ call.responses = <<Prefixes[i] \o d>>)
                => /\ edges_of(data_of(Prefixes[i] \o d)) = edges_of(data_of(d))
                   /\ call.result
                        = parse_responses_of(list(<<>>), <<d>>, call.keyword,
                                             now)

C25_Witness ==
    /\ call.op = "scrape_keyword"
    /\ call.responses = <<"for (;;);" \o primary("[" \o node_a \o "]")>>
    /\ call.result.type = "list"
    /\ Len(call.result.items) = 1
    /\ get(call.result.items[1].value, str("id")) = str("101")

\* The data and the result nodes a scraper finds in one chunk, and the
\* posts of the chunks of a capture one after the other.
chunk_data(op, chunk) ==
    IF op = "scrape_keyword" THEN data_of(chunk) ELSE legacy_data_of(chunk)
chunk_edges(op, chunk) ==
    IF op = "scrape_keyword" THEN edges_of(data_of(chunk))
    ELSE legacy_edges_of(legacy_data_of(chunk))
RECURSIVE posts_in_order(_, _, _, _)
posts_in_order(op, chunks, keyword, t) ==
    IF chunks = <<>> THEN <<>>
    ELSE results_of(chunk_edges(op, Head(chunks)), keyword, t).items
         \o posts_in_order(op, Tail(chunks), keyword, t)

\* C26: in a capture whose chunks either fail every decoding strategy, or
\* decode without result nodes under the result paths, or decode with a list
\* of result nodes, the chunks of the first two kinds are skipped: the call
\* does not raise and returns, in chunk order, the posts of the chunks of the
\* third kind.
C26_BadChunksAreSkipped ==
    call.op \in {"scrape_keyword", "scrape_search_keyword"} =>
        LET bad(chunk) == \/ chunk_data(call.op, chunk) = null
                          \/ ~is_true(chunk_edges(call.op, chunk))
            listed(chunk) == chunk_edges(call.op, chunk).type = "list"
        IN  (\A i \in 1..Len(call.responses) :
                bad(call.responses[i]) \/ listed(call.responses[i]))
            => /\ ~raised(call.result)
               /\ call.result
                    = list(posts_in_order(
                               call.op,
                               SelectSeq(call.responses,
                                         LAMBDA chunk : ~bad(chunk)),
                               call.keyword, now))

\* C27: the likes, comments, shares and views of the metrics document of an
\* extracted post, and every count of its reaction breakdown, are integers
\* that are not negative.
C27_CountsAreNonNegative ==
    (call.op = "extract_post_from_node" /\ call.result.type = "dict") =>
        \A i \in 1..Len(metrics_doc(call.result).items) :
            IF metrics_doc(call.result).items[i].key = "reaction_breakdown"
            THEN \A j \in 1..Len(metrics_doc(call.result).items[i].value.items) :
                    /\ metrics_doc(call.result).items[i].value.items[j].value.type
                           = "int"
                    /\ metrics_doc(call.result).items[i].value.items[j].value.number
                           >= 0
            ELSE /\ metrics_doc(call.result).items[i].value.type = "int"
                 /\ metrics_doc(call.result).items[i].value.number >= 0

\* C29: the counts insert_posts / insert_posts_with_metrics returns add up:
\* posts_inserted + posts_updated + errors is the number of entities of the
\* batch that have a native id, also when the store rejects only some of
\* the master operations of the bulk write.
C29_StatsCoverTheBatch ==
    call.op = "insert_posts" =>
        call.result.posts_inserted + call.result.posts_updated
                + call.result.errors
            = Cardinality({i \in 1..Len(call.scraped_posts) :
                             truthy(call.scraped_posts[i].id)})

\* C28: running out of api keys is fatal to run_youtube_scraper: once the
\* index of the scraper is past the last key (the last key was answered
\* 403 too), no search_videos is started for a keyword that is left and
\* the run does not end with 'SCRAPING COMPLETED'.
C28_ExhaustionIsFatal ==
    [][(runs[1].api_keys # <<>> /\ exhausted(runs[1])) =>
          /\ ~(runs[1].pc = "keywords" /\ runs'[1].pc = "search_videos")
          /\ runs'[1].outcome # "SCRAPING COMPLETED"]_vars

\* C30: search_videos always ends: a call under way returns or raises in
\* the end; it counts at most max_pages pages answered and makes at most
\* len(api_keys) key rotations; when it raises, the keys are exhausted;
\* and every rotation moves to another key.
C30_SearchVideosTerminates ==
    /\ (runs[1].pc = "search_videos") ~> (runs[1].pc \in {"returned", "raised"})
    /\ [](/\ runs[1].page_count <= max_pages_of(runs[1].max_results)
          /\ runs[1].rotations <= Len(runs[1].api_keys)
          /\ runs[1].pc = "raised" => exhausted(runs[1]))
    /\ [][runs'[1].rotations > runs[1].rotations
             => runs'[1].current_key_index > runs[1].current_key_index]_vars

\* A search_videos call with MaxKeys keys that was answered a page and
\* then 403 on every key has raised after MaxKeys rotations.
C30_Witness ==
    /\ call.op = "search_videos"
    /\ call.result = "raised"
    /\ Len(call.api_keys) = MaxKeys
    /\ call.rotations = MaxKeys
    /\ call.page_count >= 1
    /\ call.videos # <<>>

====
